---------------------------- MODULE Spec2Model ----------------------------
(***************************************************************************)
(* A model of the TPIE core: the serialization stream (block cursor over a *)
(* headed file), the serialization sorter (run formation and bounded       *)
(* fanout merging) and the pipelining phase scheduler.                     *)
(*                                                                         *)
(* Each subsystem has its own specification (SpecStream, SpecSort,         *)
(* SpecPhase); a specification pins the variables of the other subsystems. *)
(***************************************************************************)
EXTENDS Integers, Sequences, FiniteSets, TLC

VARIABLES
    \* ---- serialization_stream and the file it is opened on
    ss,        \* the serialization_stream object (its members)
    file,      \* the file at the stream's path
    fd,        \* m_fileAccessor: "closed", "ro", "wo" or "rw"
    res,       \* how the last operation ended: "ok" or the exception thrown
    out,       \* the bytes the last read() copied to its caller
    iolog,     \* the write_i calls of the last operation, in order
    op,        \* the last operation
    ndebug,    \* the build: TRUE when assert() is compiled out
    phase,     \* the round-trip scenario of the caller
    wlog,      \* the bytes written in the scenario
    rlog,      \* the bytes read back in the scenario
    wr,        \* the serialization_writer object (its members)
    \* ---- serialization_sort
    srt,       \* the serialization_sort object with its internal sorter
    runs,      \* the run files of the temporary directory, by absolute index
    pushed,    \* the items pushed since begin()
    pulled,    \* the items returned by pull()
    sres,      \* how the last sorter operation ended
    rets,      \* what the internal sorter's push() calls returned
    \* ---- pipelining graph
    rel,       \* the relations of the authoritative segment_map, in map order
    gt,        \* the graph_traits object: m_phases, m_evacuatePrevious
    gpc,       \* position of go_all
    calls,     \* the begin()/end()/go()/evacuate() calls made so far
    amem,      \* a phase in assign_memory: its nodes' memory and the calls
    maps,      \* the segment_map objects of the tokens, by address
    \* ---- job pool
    jm,        \* the job manager, its threads and the jobs
    \* ---- stream_accessor and serialization_reader
    acc,       \* a stream_accessor object and what byte_size() returned
    rdr        \* a serialization_reader object, the files and its calls

streamVars == <<ss, file, fd, res, out, iolog, op, ndebug, phase, wlog, rlog, wr>>
sortVars   == <<srt, runs, pushed, pulled, sres, rets>>
phaseVars  == <<rel, gt, gpc, calls, amem, maps>>
moreVars    == <<jm, acc, rdr>>
vars       == <<streamVars, sortVars, phaseVars, moreVars>>

Min(a, b) == IF a <= b THEN a ELSE b
Max(a, b) == IF a >= b THEN a ELSE b

(***************************************************************************)
(* Bounds.                                                                 *)
(***************************************************************************)
\* serialization_stream::block_size(), scaled down from 2 MiB
BlockSize == 2
\* largest stream offset a write may reach
MaxSize == 3
\* largest stream offset a write of the round trip may reach
RtMaxSize == 5
\* largest count of one read() or write()
MaxCount == 2

Byte == {0, 1}
\* the content of a byte of memory that was never assigned (a fresh
\* tpie::array<char> after resize)
Garbage == 2
\* memory_size_type arithmetic wraps; the model keeps the wrap with a word
\* that no offset of the model reaches
WordMod == 2 ^ 20

\* stream_header_t::magicConst (0xfa340f49edbada67, abbreviated) and
\* stream_header_t::versionConst
magicConst == 7
versionConst == 1
BadMagic == magicConst + 1

StreamErrors == {"end_of_stream", "bad_magic", "version_old", "version_new",
                 "unclean", "io_error", "abort"}

(***************************************************************************)
(* raw_file_accessor.  A machine state st carries the stream object, the   *)
(* file, the accessor, the pending exception (res), the bytes handed to    *)
(* the caller and the log of write_i calls.  A step on a machine state     *)
(* with a pending exception does nothing: the exception propagates.        *)
(*                                                                         *)
(* Do(x, F) is F(x) with x evaluated once; Then(st, F) is the statement F  *)
(* run after st unless an exception is pending.                            *)
(***************************************************************************)
Ok(st) == st.res = "ok"
Do(x, F(_)) == CHOOSE r \in {F(v) : v \in {x}} : TRUE
Then(st, F(_)) == CHOOSE r \in {IF Ok(v) THEN F(v) ELSE v : v \in {st}} : TRUE
Throw(st, e) == [st EXCEPT !.res = IF @ = "ok" THEN e ELSE @]

\* assert(cond): aborts the process unless compiled out (NDEBUG)
c_assert(st, cond) == IF cond \/ ndebug THEN st ELSE Throw(st, "abort")

NoHeader == [magic |-> 0, version |-> 0, size |-> 0, cleanClose |-> 0]
NoFile == [exists |-> FALSE, hasHeader |-> FALSE, hdr |-> NoHeader, data |-> <<>>]
EmptyFile == [NoFile EXCEPT !.exists = TRUE]

\* the bytes of data with bytes stored from position pos on (0-based); a
\* hole left between the old end and pos reads as zero
Overwrite(data, pos, bytes) ==
    [i \in 1..Max(Len(data), pos + Len(bytes)) |->
        IF i > pos /\ i <= pos + Len(bytes) THEN bytes[i - pos]
        ELSE IF i <= Len(data) THEN data[i] ELSE 0]

BlockIo(pos, bytes, done) ==
    [kind |-> "block", pos |-> pos, bytes |-> bytes, size |-> 0, cleanClose |-> 0,
     done |-> done]
HeaderIo(h, done) ==
    [kind |-> "header", pos |-> 0, bytes |-> <<>>, size |-> h.size,
     cleanClose |-> h.cleanClose, done |-> done]

\* seek_i(header_size() + pos); write_i(bytes, Len(bytes)): the call is
\* logged; it fails on a descriptor that is not open for writing
write_i(st, pos, bytes) ==
    Then(st, LAMBDA a :
        IF a.fd \notin {"wo", "rw"}
        THEN Throw([a EXCEPT !.iolog = Append(@, BlockIo(pos, bytes, FALSE))],
                   "io_error")
        ELSE [a EXCEPT !.file.data = IF Len(bytes) = 0 THEN @
                                     ELSE Overwrite(@, pos, bytes),
                       !.iolog = Append(@, BlockIo(pos, bytes, TRUE))])

\* seek_i(0); write_i(headerArea)
write_i_header(st, h) ==
    Then(st, LAMBDA a :
        IF a.fd \notin {"wo", "rw"}
        THEN Throw([a EXCEPT !.iolog = Append(@, HeaderIo(h, FALSE))], "io_error")
        ELSE [a EXCEPT !.file.hdr = h, !.file.hasHeader = TRUE,
                       !.iolog = Append(@, HeaderIo(h, TRUE))])

\* seek_i(header_size() + pos); read_i(n): can the n bytes be read
can_read_i(st, pos, n) ==
    st.fd \in {"ro", "rw"} /\ pos + n <= Len(st.file.data)

(***************************************************************************)
(* serialization_stream                                                    *)
(***************************************************************************)
AccessTypes == {"access_read", "access_write", "access_read_write"}

\* serialization_stream::serialization_stream(): m_block(new block_t),
\* m_index(0), m_size(0), m_open(false).  The block's size, offset and dirty
\* and m_canRead, m_canWrite are assigned by open() before any use.
NewStream ==
    [m_open |-> FALSE, m_canRead |-> FALSE, m_canWrite |-> FALSE,
     m_size |-> 0, m_index |-> 0,
     block |-> [size |-> 0, offset |-> 0, dirty |-> FALSE, data |-> <<>>]]

\* serialization_stream::offset()
offset(s) == s.m_index + s.block.offset

\* serialization_stream::size
size_of(s) == s.m_size

\* serialization_stream::init_header
init_header(s) ==
    [magic |-> magicConst, version |-> versionConst, size |-> s.m_size,
     cleanClose |-> 0]

\* serialization_stream::write_header
write_header(st, header, cleanClose) ==
    Then(st, LAMBDA a :
        write_i_header(c_assert(a, a.ss.m_canWrite),
                       [header EXCEPT !.cleanClose = IF cleanClose THEN 1 ELSE 0]))

\* verify_header without the version checks
verify_header_magic_only(st, header) ==
    IF header.magic # magicConst THEN Throw(st, "bad_magic") ELSE st

\* serialization_stream::verify_header
verify_header(st, header) ==
    IF header.magic # magicConst THEN Throw(st, "bad_magic")
    ELSE IF header.version < versionConst THEN Throw(st, "version_old")
    ELSE IF header.version > versionConst THEN Throw(st, "version_new")
    ELSE st

\* serialization_stream::verify_clean_close
verify_clean_close(st, header) ==
    IF header.cleanClose # 1 THEN Throw(st, "unclean") ELSE st

\* write_block seeking to the start of the data area
write_block_at_zero(st) ==
    Then(st, LAMBDA a :
        write_i(c_assert(c_assert(a, a.ss.m_open), a.ss.m_canWrite), 0,
                SubSeq(a.ss.block.data, 1, Min(a.ss.block.size, BlockSize))))

\* serialization_stream::write_block
write_block(st) ==
    Then(st, LAMBDA a :
        IF a.ss.block.size > Len(a.ss.block.data)
        THEN Throw(c_assert(c_assert(a, a.ss.m_open), a.ss.m_canWrite), "io_error")
        ELSE write_i(c_assert(c_assert(a, a.ss.m_open), a.ss.m_canWrite),
                     a.ss.block.offset,
                     SubSeq(a.ss.block.data, 1, a.ss.block.size)))

\* the block size read_block computes for the block at offs
read_block_size(s, offs) ==
    IF BlockSize + offs > size_of(s) THEN (size_of(s) - offs) % WordMod
    ELSE BlockSize

\* serialization_stream::read_block
read_block(st, offs) ==
    Then(st, LAMBDA a0 :
    Then(c_assert(a0, a0.ss.m_open), LAMBDA a :
    Do(read_block_size(a.ss, offs), LAMBDA sz :
    Then([a EXCEPT !.ss.block.offset = offs, !.ss.block.size = sz], LAMBDA b :
    Then(IF sz > 0 THEN c_assert(b, b.ss.m_canRead) ELSE b, LAMBDA c :
        IF sz > 0 /\ ~can_read_i(c, offs, sz) THEN Throw(c, "io_error")
        ELSE [c EXCEPT
                !.ss.block.data =
                    [i \in 1..Len(@) |->
                        IF i <= sz THEN c.file.data[offs + i] ELSE @[i]],
                !.ss.m_index = 0,
                !.ss.block.dirty = FALSE])))))

\* flush_block forgetting the write
flush_block_drop(st) ==
    Then(st, LAMBDA a : [a EXCEPT !.ss.block.dirty = FALSE])

\* serialization_stream::flush_block
flush_block(st) ==
    Then(st, LAMBDA a0 :
    Then(IF a0.ss.block.dirty THEN write_block(a0) ELSE a0, LAMBDA a :
        [a EXCEPT !.ss.block.dirty = FALSE]))

\* serialization_stream::update_block
update_block(st) ==
    Then(flush_block(st), LAMBDA a :
        read_block(a, a.ss.block.offset + BlockSize))

\* close sealing the header before the block is flushed
close_open_header_first(st) ==
    Then(IF st.ss.m_canWrite THEN write_header(st, init_header(st.ss), TRUE) ELSE st,
         LAMBDA h :
    Then(flush_block(h), LAMBDA f : [f EXCEPT !.fd = "closed"]))

\* the part of serialization_stream::close done on an open stream
close_open(st) ==
    Then(flush_block(st), LAMBDA f :
    Then(IF f.ss.m_canWrite THEN write_header(f, init_header(f.ss), TRUE) ELSE f,
         LAMBDA h : [h EXCEPT !.fd = "closed"]))

\* serialization_stream::close
close(st) ==
    Then(st, LAMBDA a0 :
    Then(IF a0.ss.m_open THEN close_open(a0) ELSE a0, LAMBDA a :
        [a EXCEPT !.ss.block.data = <<>>, !.ss.m_open = FALSE]))

\* raw_file_accessor::try_open_rw / open_rw_new / open_ro / open_wo: the
\* machine state with the file opened
open_file(st, accessType) ==
    CASE accessType = "access_read_write" ->
            IF st.file.exists THEN [st EXCEPT !.fd = "rw"]
            ELSE [st EXCEPT !.fd = "rw", !.file = EmptyFile]
      [] accessType = "access_read" ->
            IF st.file.exists THEN [st EXCEPT !.fd = "ro"]
            ELSE Throw(st, "io_error")
      [] accessType = "access_write" ->
            [st EXCEPT !.fd = "wo", !.file = EmptyFile]

\* serialization_stream::read_header
read_header(st) ==
    Then(st, LAMBDA a :
    Then(c_assert(a, a.ss.m_canRead), LAMBDA b :
        IF b.file.hasHeader THEN b ELSE Throw(b, "io_error")))

\* the switch of serialization_stream::open: the file is opened and, where
\* the access type reads it, its header read and verified
open_switch(st, existed, accessType, requireCleanClose) ==
    CASE accessType = "access_read_write" ->
            IF existed
            THEN Then(read_header(open_file(st, accessType)), LAMBDA a :
                 Then(verify_header(a, a.file.hdr), LAMBDA b :
                    IF requireCleanClose
                    THEN verify_clean_close(b, b.file.hdr) ELSE b))
            ELSE open_file(st, accessType)
      [] accessType = "access_read" ->
            Then(read_header(open_file(st, accessType)), LAMBDA a :
                verify_header(a, a.file.hdr))
      [] accessType = "access_write" -> open_file(st, accessType)

\* serialization_stream::open
open(st, accessType, requireCleanClose) ==
    Then(close(st), LAMBDA a :
    Then([a EXCEPT
            !.ss.m_canRead = accessType \in {"access_read", "access_read_write"},
            !.ss.m_canWrite = accessType \in {"access_write", "access_read_write"},
            !.ss.m_size = 0], LAMBDA b :
    Do(IF b.file.exists /\ accessType # "access_write"
       THEN b.file.hdr ELSE init_header(b.ss), LAMBDA header :
    Then(open_switch(b, b.file.exists, accessType, requireCleanClose), LAMBDA v :
    Then([v EXCEPT !.ss.m_size = header.size], LAMBDA c :
    Then(IF c.ss.m_canWrite THEN write_header(c, header, FALSE) ELSE c, LAMBDA d :
        read_block([d EXCEPT !.ss.block.data = [i \in 1..BlockSize |-> Garbage],
                             !.ss.m_open = TRUE], 0)))))))

\* one round of the loop of serialization_stream::write, after update_block
write_some(a, s, written) ==
    Do(Min(Len(s) - written, BlockSize - a.ss.m_index), LAMBDA writeSize :
        [a EXCEPT
            !.ss.block.data =
                [i \in 1..Len(@) |->
                    IF i > a.ss.m_index /\ i <= a.ss.m_index + writeSize
                    THEN s[written + i - a.ss.m_index] ELSE @[i]],
            !.ss.m_index = @ + writeSize,
            !.ss.block.dirty = TRUE,
            !.ss.block.size = Max(@, a.ss.m_index + writeSize),
            !.ss.m_size = Max(@, a.ss.block.offset + a.ss.m_index + writeSize)])

\* the loop of serialization_stream::write
RECURSIVE write_loop(_, _, _)
write_loop(st, s, written) ==
    IF written = Len(s) THEN st
    ELSE Then(IF st.ss.m_index >= BlockSize THEN update_block(st) ELSE st,
              LAMBDA a :
                Do(Min(Len(s) - written, BlockSize - a.ss.m_index), LAMBDA n :
                    Do(write_some(a, s, written), LAMBDA b :
                        write_loop(b, s, written + n))))

\* serialization_stream::write
write(st, s) ==
    Then(st, LAMBDA a0 :
    Then(c_assert(a0, a0.ss.m_canWrite), LAMBDA a : write_loop(a, s, 0)))

\* the end-of-stream check of serialization_stream::read, made when the
\* block is exhausted
read_past_end(s, remaining) ==
    offset(s) >= size_of(s) \/ offset(s) + remaining > size_of(s)

\* the loop of serialization_stream::read
RECURSIVE read_loop(_, _, _)
read_loop(st, count, written) ==
    IF written = count THEN st
    ELSE Then(IF st.ss.m_index >= BlockSize
              THEN IF read_past_end(st.ss, count - written)
                   THEN Throw(st, "end_of_stream")
                   ELSE update_block(st)
              ELSE st,
              LAMBDA a :
                Do(Min(count - written, BlockSize - a.ss.m_index), LAMBDA readSize :
                    Do([a EXCEPT
                          !.out = @ \o SubSeq(a.ss.block.data, a.ss.m_index + 1,
                                              a.ss.m_index + readSize),
                          !.ss.m_index = @ + readSize], LAMBDA b :
                        read_loop(b, count, written + readSize))))

\* serialization_stream::read
read(st, count) ==
    Then(st, LAMBDA a0 :
    Then(c_assert(a0, a0.ss.m_canRead), LAMBDA a : read_loop(a, count, 0)))

\* serialization_stream::can_read
can_read(s) ==
    IF s.m_index < s.block.size THEN TRUE ELSE offset(s) < size_of(s)

(***************************************************************************)
(* The stream's operations as actions.                                     *)
(***************************************************************************)
Cur == [ss |-> ss, file |-> file, fd |-> fd, res |-> "ok", out |-> <<>>,
        iolog |-> <<>>]

OpRec(name, access, rcc, n) ==
    [name |-> name, access |-> access, rcc |-> rcc, n |-> n]

Bytes(n) == [1..n -> Byte]
WriteInputs == UNION {Bytes(n) : n \in 0..MaxCount}

\* the state an operation leaves; a failed assert ends the process, and the
\* next process starts with a new stream object
Commit(st, o) ==
    /\ ss' = IF st.res = "abort" THEN NewStream ELSE st.ss
    /\ fd' = IF st.res = "abort" THEN "closed" ELSE st.fd
    /\ file' = st.file
    /\ res' = st.res
    /\ out' = st.out
    /\ iolog' = st.iolog
    /\ op' = o
    /\ UNCHANGED ndebug

othersOfStream == <<phase, wlog, rlog, wr, sortVars, phaseVars, moreVars>>

DoOpen(accessType, requireCleanClose) ==
    \E st \in {open(Cur, accessType, requireCleanClose)} :
        Commit(st, OpRec("open", accessType, requireCleanClose, 0))

DoClose ==
    \E st \in {close(Cur)} : Commit(st, OpRec("close", "", FALSE, 0))

\* write(s, Len(s)) on an open stream, the cursor staying within limit
DoWrite(s, limit) ==
    /\ ss.m_open
    /\ offset(ss) + Len(s) <= limit
    /\ \E st \in {write(Cur, s)} : Commit(st, OpRec("write", "", FALSE, Len(s)))

DoRead(count) ==
    /\ ss.m_open
    /\ \E st \in {read(Cur, count)} : Commit(st, OpRec("read", "", FALSE, count))

Open(accessType, requireCleanClose) ==
    DoOpen(accessType, requireCleanClose) /\ UNCHANGED othersOfStream

Close == DoClose /\ UNCHANGED othersOfStream

\* the bytes a caller writes at stream offset offs: byte k of the stream is
\* k modulo 2
Pattern(offs, n) == [i \in 1..n |-> (offs + i) % 2]

Write(n) == DoWrite(Pattern(offset(ss), n), MaxSize) /\ UNCHANGED othersOfStream

Read(count) == DoRead(count) /\ UNCHANGED othersOfStream

\* serialization_stream::~serialization_stream
Destroy ==
    /\ ss.m_open
    /\ \E st \in {close(Cur)} :
        Commit([st EXCEPT !.ss = NewStream, !.fd = "closed"],
               OpRec("destroy", "", FALSE, 0))
    /\ UNCHANGED othersOfStream

\* the process ends while the stream is open; no destructor runs
Crash ==
    /\ ss.m_open
    /\ Commit([Cur EXCEPT !.ss = NewStream, !.fd = "closed"],
              OpRec("crash", "", FALSE, 0))
    /\ UNCHANGED othersOfStream

\* another program rewrites the magic or the version of the closed file
Corrupt(m, v) ==
    /\ ~ss.m_open /\ file.hasHeader
    /\ <<m, v>> # <<file.hdr.magic, file.hdr.version>>
    /\ Commit([Cur EXCEPT !.file.hdr.magic = m, !.file.hdr.version = v,
                          !.fd = "closed"],
              OpRec("corrupt", "", FALSE, 0))
    /\ UNCHANGED othersOfStream

Magics == {magicConst, BadMagic}
Versions == {versionConst - 1, versionConst, versionConst + 1}

StreamInit ==
    /\ ss = NewStream
    /\ file = NoFile
    /\ fd = "closed"
    /\ res = "ok"
    /\ out = <<>>
    /\ iolog = <<>>
    /\ op = OpRec("new", "", FALSE, 0)
    /\ ndebug \in BOOLEAN

\* serialization_writer_base::serialization_writer_base(): m_blocksWritten(0),
\* m_size(0), m_open(false); the writer's block is empty and m_index is
\* assigned by open()
NewWriter ==
    [m_open |-> FALSE, m_blocksWritten |-> 0, m_size |-> 0, m_index |-> 0,
     m_block |-> <<>>]

NoScenario == phase = "none" /\ wlog = <<>> /\ rlog = <<>> /\ wr = NewWriter
SortIdle ==
    /\ srt = <<>> /\ runs = <<>> /\ pushed = <<>> /\ pulled = <<>> /\ sres = "ok"
    /\ rets = <<>>
PhaseIdle ==
    /\ rel = <<>> /\ gt = <<>> /\ gpc = "idle" /\ calls = <<>>
    /\ amem = <<>> /\ maps = <<>> /\ jm = <<>> /\ acc = <<>> /\ rdr = <<>>

InitStream == StreamInit /\ NoScenario /\ SortIdle /\ PhaseIdle

NextStream ==
    \/ \E a \in AccessTypes, r \in BOOLEAN : Open(a, r)
    \/ Close
    \/ \E n \in 0..MaxCount : Write(n)
    \/ \E n \in 0..MaxCount : Read(n)
    \/ Destroy
    \/ Crash
    \/ \E m \in Magics, v \in Versions : Corrupt(m, v)

SpecStream == InitStream /\ [][NextStream]_vars

(***************************************************************************)
(* The round trip of stream_test: a new file is opened for writing,        *)
(* written, closed, opened again for reading and read back.                *)
(***************************************************************************)
RtOpen(accessType) ==
    /\ phase = "start"
    /\ accessType \in {"access_write", "access_read_write"}
    /\ DoOpen(accessType, TRUE)
    /\ phase' = "writing"
    /\ UNCHANGED <<wlog, rlog, wr, sortVars, phaseVars, moreVars>>

RtWrite(s) ==
    /\ phase = "writing"
    /\ DoWrite(s, RtMaxSize)
    /\ wlog' = wlog \o s
    /\ UNCHANGED <<phase, rlog, wr, sortVars, phaseVars, moreVars>>

RtClose ==
    /\ phase = "writing"
    /\ DoClose
    /\ phase' = "written"
    /\ UNCHANGED <<wlog, rlog, wr, sortVars, phaseVars, moreVars>>

RtReopen(accessType) ==
    /\ phase = "written"
    /\ accessType \in {"access_read", "access_read_write"}
    /\ DoOpen(accessType, TRUE)
    /\ phase' = "reading"
    /\ UNCHANGED <<wlog, rlog, wr, sortVars, phaseVars, moreVars>>

RtRead(count) ==
    /\ phase = "reading"
    /\ Len(rlog) + count <= Len(wlog)
    /\ DoRead(count)
    /\ rlog' = rlog \o out'
    /\ UNCHANGED <<phase, wlog, wr, sortVars, phaseVars, moreVars>>

InitRoundTrip ==
    /\ StreamInit
    /\ phase = "start" /\ wlog = <<>> /\ rlog = <<>> /\ wr = NewWriter
    /\ SortIdle
    /\ PhaseIdle

NextRoundTrip ==
    \/ \E a \in AccessTypes : RtOpen(a)
    \/ \E s \in WriteInputs : RtWrite(s)
    \/ RtClose
    \/ \E a \in AccessTypes : RtReopen(a)
    \/ \E n \in 0..MaxCount : RtRead(n)

SpecRoundTrip == InitRoundTrip /\ [][NextRoundTrip]_vars

(***************************************************************************)
(* serialization_writer: the block-buffered, write-only writer of a headed *)
(* file.  Its machine state carries the writer object in place of the      *)
(* stream.                                                                 *)
(***************************************************************************)
\* largest number of blocks a writer writes
MaxBlocks == 2

\* serialization_header::serialization_header followed by set_size(size)
writer_header(size) ==
    [magic |-> magicConst, version |-> versionConst, size |-> size,
     cleanClose |-> 0]

\* serialization_header::write
header_write(st, header, cleanClose) ==
    write_i_header(st, [header EXCEPT !.cleanClose = IF cleanClose THEN 1 ELSE 0])

\* serialization_writer_base::close
writer_base_close(st) ==
    Then(st, LAMBDA a :
        IF ~a.wr.m_open THEN a
        ELSE Then(header_write(a, writer_header(a.wr.m_size), TRUE), LAMBDA b :
                [b EXCEPT !.fd = "closed", !.wr.m_open = FALSE]))

\* serialization_writer_base::open
writer_base_open(st) ==
    Then(writer_base_close(st), LAMBDA a :
    Then([a EXCEPT !.fd = "wo", !.file = EmptyFile,
                   !.wr.m_blocksWritten = 0, !.wr.m_size = 0,
                   !.wr.m_open = TRUE], LAMBDA b :
        header_write(b, writer_header(0), FALSE)))

\* serialization_writer_base::write_block
writer_base_write_block(st, s) ==
    Then(st, LAMBDA a0 :
    Then(c_assert(a0, Len(s) <= BlockSize), LAMBDA a :
    Then(write_i(a, a.wr.m_blocksWritten * BlockSize, s), LAMBDA b :
        [b EXCEPT !.wr.m_blocksWritten = @ + 1,
                  !.wr.m_size = a.wr.m_blocksWritten * BlockSize + Len(s)])))

\* serialization_writer::write_block
writer_write_block(st) ==
    Then(st, LAMBDA a :
    Then(writer_base_write_block(a, SubSeq(a.wr.m_block, 1, a.wr.m_index)),
         LAMBDA b : [b EXCEPT !.wr.m_index = 0]))

\* serialization_writer::open
writer_open(st) ==
    Then(writer_base_open(st), LAMBDA a :
        [a EXCEPT !.wr.m_block = [i \in 1..BlockSize |-> Garbage],
                  !.wr.m_index = 0])

\* serialization_writer::close
writer_close(st) ==
    Then(st, LAMBDA a0 :
    Then(IF a0.wr.m_index > 0 THEN writer_write_block(a0) ELSE a0, LAMBDA a :
        writer_base_close([a EXCEPT !.wr.m_block = <<>>, !.wr.m_index = 0])))

\* serialization_writer::write(s, n): the bytes are copied into the block,
\* which is written each time it is full
RECURSIVE writer_write(_, _, _)
writer_write(st, s, written) ==
    IF written = Len(s) THEN st
    ELSE Then(IF st.wr.m_index >= BlockSize THEN writer_write_block(st) ELSE st,
              LAMBDA a :
                Do(Min(Len(s) - written, BlockSize - a.wr.m_index), LAMBDA n :
                    Do([a EXCEPT
                          !.wr.m_block =
                              [i \in 1..Len(@) |->
                                  IF i > a.wr.m_index /\ i <= a.wr.m_index + n
                                  THEN s[written + i - a.wr.m_index] ELSE @[i]],
                          !.wr.m_index = @ + n], LAMBDA b :
                        writer_write(b, s, written + n))))

WrCur == [wr |-> wr, file |-> file, fd |-> fd, res |-> "ok", iolog |-> <<>>]

WrCommit(st, o) ==
    /\ wr' = IF st.res = "abort" THEN NewWriter ELSE st.wr
    /\ fd' = IF st.res = "abort" THEN "closed" ELSE st.fd
    /\ file' = st.file
    /\ res' = st.res
    /\ iolog' = st.iolog
    /\ op' = o
    /\ UNCHANGED <<ss, out, ndebug, phase, rlog, sortVars, phaseVars, moreVars>>

WrOpen ==
    /\ phase = "writer"
    /\ \E st \in {writer_open(WrCur)} : WrCommit(st, OpRec("wopen", "", FALSE, 0))
    /\ wlog' = <<>>

WrWrite(s) ==
    /\ phase = "writer"
    /\ wr.m_open
    /\ wr.m_blocksWritten * BlockSize + wr.m_index + Len(s) <= MaxBlocks * BlockSize
    /\ \E st \in {writer_write(WrCur, s, 0)} :
            WrCommit(st, OpRec("wwrite", "", FALSE, Len(s)))
    /\ wlog' = wlog \o s

WrClose ==
    /\ phase = "writer"
    /\ \E st \in {writer_close(WrCur)} : WrCommit(st, OpRec("wclose", "", FALSE, 0))
    /\ UNCHANGED wlog

\* the process ends while the writer is open
WrCrash ==
    /\ phase = "writer"
    /\ wr.m_open
    /\ WrCommit([WrCur EXCEPT !.wr = NewWriter, !.fd = "closed"],
                OpRec("wcrash", "", FALSE, 0))
    /\ UNCHANGED wlog

(***************************************************************************)
(* The sealing scenario: a process works on the file through a             *)
(* serialization_stream or through a serialization_writer.                 *)
(***************************************************************************)
StreamStep == phase = "stream" /\ NextStream

InitSeal ==
    /\ StreamInit
    /\ phase \in {"stream", "writer"}
    /\ wlog = <<>> /\ rlog = <<>> /\ wr = NewWriter
    /\ SortIdle
    /\ PhaseIdle

NextSeal ==
    \/ StreamStep
    \/ WrOpen
    \/ \E s \in WriteInputs : WrWrite(s)
    \/ WrClose
    \/ WrCrash

SpecSeal == InitSeal /\ [][NextSeal]_vars

(***************************************************************************)
(* serialization_internal_sort and serialization_sort.  An item is its     *)
(* key; the comparator is std::less.  An item is serialized by one write   *)
(* or by two (a length and a body), so items differ in size.  A run file   *)
(* is the sequence of the items serialized into it.  A machine state st    *)
(* carries the sorter object, the run files and the pending exception.     *)
(***************************************************************************)
\* largest number of items pushed
MaxPush == 5
\* largest key
MaxKey == 3
\* largest memAvail a sorter is constructed with
MaxMem == 7

Items == 1..MaxKey
MemAvails == {mem \in 1..MaxMem : mem % 2 = 1}
ItemSizes == {1, 2}

\* the sizes of the write() calls that serialize an item
Chunks(item) == IF item % 2 = 0 THEN <<1, 1>> ELSE <<1>>

RECURSIVE SumSeq(_)
SumSeq(s) == IF s = <<>> THEN 0 ELSE Head(s) + SumSeq(Tail(s))

\* the serialized size of an item
ItemBytes(item) == SumSeq(Chunks(item))

\* serialization_writer::memory_usage(), serialization_reader::memory_usage()
\* and sizeof(char *), in the unit in which a char is 1
writer_memory_usage == 1
reader_memory_usage == 1
PtrSize == 2

\* array<char>::memory_usage(buffer) + array<char *>::memory_usage(nItems)
memory_usage(buffer, nItems) == buffer + PtrSize * nItems

\* the index array size push() takes when none was expected
DefaultIndexes == 16

\* serialization_internal_sort::serialization_internal_sort
NewInternalSort ==
    [m_bufferSize |-> 0, m_index |-> 0, m_indexes |-> <<>>, m_indexesSize |-> 0,
     m_expectedItems |-> 0, m_items |-> 0, m_itemsRead |-> 0,
     m_largestItem |-> 0, m_full |-> FALSE]

\* serialization_internal_sort::begin
internal_begin(s, buffer, nItems) ==
    [s EXCEPT !.m_indexesSize = nItems, !.m_expectedItems = nItems,
              !.m_bufferSize = buffer, !.m_items = 0, !.m_largestItem = 0,
              !.m_index = 0, !.m_full = FALSE, !.m_indexes = <<>>]

\* a write that checks only the buffer's last byte
internal_write_off_by_one(s, n) ==
    IF s.m_full \/ s.m_index + n > s.m_bufferSize + 1 THEN [s EXCEPT !.m_full = TRUE]
    ELSE [s EXCEPT !.m_index = @ + n]

\* serialization_internal_sort::write
internal_write(s, n) ==
    IF s.m_full \/ s.m_index + n > s.m_bufferSize THEN [s EXCEPT !.m_full = TRUE]
    ELSE [s EXCEPT !.m_index = @ + n]

\* serialize(*this, item): the item's write() calls in order
RECURSIVE internal_serialize(_, _)
internal_serialize(s, chunks) ==
    IF chunks = <<>> THEN s
    ELSE Do(internal_write(s, Head(chunks)), LAMBDA a :
            internal_serialize(a, Tail(chunks)))

\* a push that forgets an earlier refusal before it serializes the item
internal_push_item_retry(s, item) ==
    Do(internal_serialize([s EXCEPT !.m_full = FALSE], Chunks(item)), LAMBDA b :
        IF b.m_full THEN b
        ELSE [b EXCEPT !.m_indexes = Append(@, item),
                       !.m_items = @ + 1,
                       !.m_largestItem = Max(@, b.m_index - s.m_index)])

\* serialization_internal_sort::push, after the index array and m_index are
\* prepared: the item is serialized and, if it fitted, recorded
internal_push_item(s, item) ==
    Do([s EXCEPT !.m_indexesSize = IF s.m_items = @ THEN 2 * @ ELSE @], LAMBDA a :
    Do(internal_serialize(a, Chunks(item)), LAMBDA b :
        IF b.m_full THEN b
        ELSE [b EXCEPT !.m_indexes = Append(@, item),
                       !.m_items = @ + 1,
                       !.m_largestItem = Max(@, b.m_index - a.m_index)]))

\* serialization_internal_sort::push; it returns !m_full
internal_push(s, item) ==
    Do([s EXCEPT !.m_indexesSize =
                    IF @ = 0
                    THEN (IF s.m_expectedItems > 0 THEN s.m_expectedItems
                          ELSE DefaultIndexes)
                    ELSE @,
                 !.m_index = IF s.m_items = 0 THEN 0 ELSE @], LAMBDA a :
        IF a.m_index >= a.m_bufferSize THEN [a EXCEPT !.m_full = TRUE]
        ELSE internal_push_item(a, item))

\* std::sort by the comparator: insertion of x into a sorted sequence
RECURSIVE Insert(_, _)
Insert(sorted, x) ==
    IF sorted = <<>> THEN <<x>>
    ELSE IF x < Head(sorted) THEN <<x>> \o sorted
    ELSE <<Head(sorted)>> \o Insert(Tail(sorted), x)

RECURSIVE std_sort(_)
std_sort(s) == IF s = <<>> THEN <<>> ELSE Insert(std_sort(Tail(s)), Head(s))

\* serialization_internal_sort::sort
internal_sort(s) == [s EXCEPT !.m_indexes = std_sort(@), !.m_itemsRead = 0]

\* serialization_internal_sort::can_read
internal_can_read(s) == s.m_itemsRead < s.m_items

\* serialization_internal_sort::reset
internal_reset(s) ==
    [s EXCEPT !.m_index = 0, !.m_items = 0, !.m_itemsRead = 0, !.m_full = FALSE,
              !.m_indexes = <<>>]

\* serialization_internal_sort::end
internal_end(s) == internal_reset([s EXCEPT !.m_bufferSize = 0])

\* serialization_sort::serialization_sort; pc is the caller's position,
\* fanout, i and newCount are the locals of end(), initialRuns is the number
\* of runs when end() reaches its merge loop, passes the number of rounds
\* of that loop and peakOpen the largest number of run files the sorter had
\* open at once
NewSort(memAvail, minimumItemSize) ==
    [m_sorter |-> NewInternalSort, m_sortedRunsCount |-> 0,
     m_sortedRunsOffset |-> 0, m_memAvail |-> memAvail, m_runSize |-> 0,
     m_minimumItemSize |-> minimumItemSize, m_open |-> FALSE,
     m_firstFileUsed |-> 0, m_lastFileUsed |-> 0,
     m_reader |-> 0, pc |-> "new", fanout |-> 0, i |-> 0, newCount |-> 0,
     initialRuns |-> 0, passes |-> 0, peakOpen |-> 0]

\* does an item buffer of the given size fit in memAvail
BufferFits(buffer, itsz, memAvail) ==
    memory_usage(buffer, (buffer + (itsz - 1)) \div itsz) <= memAvail

\* the first loop of calc_sorter_params: hi is doubled while it fits
RECURSIVE BufferDouble(_, _, _, _)
BufferDouble(lo, hi, itsz, memAvail) ==
    IF BufferFits(hi, itsz, memAvail) THEN BufferDouble(hi, hi * 2, itsz, memAvail)
    ELSE <<lo, hi>>

\* a calc_sorter_params without its second loop
BufferSearch_none(lo, hi, itsz, memAvail) == lo

\* the second loop of calc_sorter_params: binary search between lo and hi
RECURSIVE BufferSearch(_, _, _, _)
BufferSearch(lo, hi, itsz, memAvail) ==
    IF lo < hi - 1
    THEN IF BufferFits(lo + (hi - lo) \div 2, itsz, memAvail)
         THEN BufferSearch(lo + (hi - lo) \div 2, hi, itsz, memAvail)
         ELSE BufferSearch(lo, lo + (hi - lo) \div 2, itsz, memAvail)
    ELSE lo

\* serialization_sort::calc_sorter_params
calc_sorter_params(st, memAvail) ==
    IF memAvail <= writer_memory_usage THEN Throw(st, "no_memory_runs")
    ELSE Do(st.srt.m_minimumItemSize, LAMBDA itsz :
         Do(BufferDouble(0, 1, itsz, memAvail - writer_memory_usage), LAMBDA lh :
         Do(BufferSearch(lh[1], lh[2], itsz, memAvail - writer_memory_usage),
            LAMBDA lo :
            [st EXCEPT !.srt.m_runSize = (lo + (itsz - 1)) \div itsz,
                       !.srt.m_sorter =
                            internal_begin(@, lo, (lo + (itsz - 1)) \div itsz)])))

\* serialization_sort::begin
sort_begin(st) == calc_sorter_params(st, st.srt.m_memAvail)

\* sorted_run_path(idx): the absolute index of the run file
sorted_run_path(s, idx) == s.m_sortedRunsOffset + idx

\* the run files with the file at index idx created or replaced
PutRun(files, idx, items) ==
    [k \in DOMAIN files \cup {idx} |-> IF k = idx THEN items ELSE files[k]]

\* the run files without those at the indices gone
RemoveRuns(files, gone) ==
    IF DOMAIN files \subseteq gone THEN <<>>
    ELSE [k \in DOMAIN files \ gone |-> files[k]]

\* serialization_sort::end_run
end_run(st) ==
    Then(st, LAMBDA a0 :
    Do([a0 EXCEPT !.srt.m_sorter = internal_sort(@)], LAMBDA a :
        IF ~internal_can_read(a.srt.m_sorter) THEN a
        ELSE [a EXCEPT
                !.srt.m_lastFileUsed =
                    Max(@, a.srt.m_sortedRunsCount + a.srt.m_sortedRunsOffset),
                !.srt.m_sortedRunsCount = @ + 1,
                !.srt.peakOpen = Max(@, 1),
                !.runs = PutRun(@, sorted_run_path(a.srt, a.srt.m_sortedRunsCount),
                                a.srt.m_sorter.m_indexes),
                !.srt.m_sorter = internal_reset(@)]))

\* push forgetting the item that ended the run
sort_push_drop(st, item) ==
    Do(internal_push(st.srt.m_sorter, item), LAMBDA s1 :
        IF ~s1.m_full THEN [st EXCEPT !.srt.m_sorter = s1]
        ELSE end_run([st EXCEPT !.srt.m_sorter = s1]))

\* serialization_sort::push
sort_push(st, item) ==
    Do(internal_push(st.srt.m_sorter, item), LAMBDA s1 :
        IF ~s1.m_full THEN [st EXCEPT !.srt.m_sorter = s1]
        ELSE Then(end_run([st EXCEPT !.srt.m_sorter = s1]), LAMBDA a :
             Do(internal_push(a.srt.m_sorter, item), LAMBDA s2 :
                IF s2.m_full
                THEN Throw([a EXCEPT !.srt.m_sorter = s2], "item_too_big")
                ELSE [a EXCEPT !.srt.m_sorter = s2])))

\* the merge of sorted sequences through the priority queue of merge_runs:
\* the least head under the comparator is written next
RECURSIVE MergeHeads(_)
MergeHeads(seqs) ==
    IF \A k \in 1..Len(seqs) : seqs[k] = <<>> THEN <<>>
    ELSE Do(CHOOSE k \in 1..Len(seqs) :
                /\ seqs[k] # <<>>
                /\ \A j \in 1..Len(seqs) :
                        seqs[j] # <<>> => ~(Head(seqs[j]) < Head(seqs[k])),
            LAMBDA k : <<Head(seqs[k])>> \o MergeHeads([seqs EXCEPT ![k] = Tail(@)]))

\* serialization_sort::merge_runs
merge_runs(st, a, b, dst) ==
    Then(st, LAMBDA s0 :
    Do([s0 EXCEPT !.runs = PutRun(@, sorted_run_path(s0.srt, dst), <<>>),
                  !.srt.peakOpen = Max(@, 1),
                  !.srt.m_lastFileUsed = Max(@, s0.srt.m_sortedRunsOffset + dst)],
       LAMBDA s1 :
        IF \E p \in a..(b - 1) : sorted_run_path(s1.srt, p) \notin DOMAIN s1.runs
        THEN Throw([s1 EXCEPT !.srt.peakOpen =
                        Max(@, 1 + Cardinality({p \in a..(b - 1) :
                            \A q \in a..p : sorted_run_path(s1.srt, q)
                                                \in DOMAIN s1.runs}))],
                   "io_error")
        ELSE Do(MergeHeads([k \in 1..(b - a) |->
                                s1.runs[sorted_run_path(s1.srt, a + k - 1)]]),
                LAMBDA merged :
                [s1 EXCEPT
                    !.srt.peakOpen = Max(@, 1 + (b - a)),
                    !.runs = PutRun(RemoveRuns(@, {sorted_run_path(s1.srt, p) :
                                                    p \in a..(b - 1)}),
                                    sorted_run_path(s1.srt, dst), merged),
                    !.srt.m_firstFileUsed =
                        IF @ = s1.srt.m_sortedRunsOffset + a
                        THEN s1.srt.m_sortedRunsOffset + b ELSE @])))

\* an end() that leaves the readers' memory out of the fanout
sort_end_no_reader(st) ==
    Then(end_run(st), LAMBDA a :
    Do([a EXCEPT !.srt.m_sorter = internal_end(@)], LAMBDA b :
    Do(b.srt.m_sorter.m_largestItem, LAMBDA largestItem :
        IF largestItem = 0 THEN [b EXCEPT !.srt.pc = "ended"]
        ELSE IF b.srt.m_memAvail <= writer_memory_usage
        THEN Throw(b, "no_memory_merge")
        ELSE Do((b.srt.m_memAvail - writer_memory_usage) \div largestItem,
                LAMBDA fanout :
                IF fanout < 2 THEN Throw(b, "no_memory_merge")
                ELSE [b EXCEPT !.srt.fanout = fanout, !.srt.i = 0,
                               !.srt.newCount = 0,
                               !.srt.initialRuns = b.srt.m_sortedRunsCount,
                               !.srt.pc = IF b.srt.m_sortedRunsCount > 1
                                          THEN "merging" ELSE "ended"]))))

\* serialization_sort::end up to the merge loop: the last run is written and
\* the fanout computed
sort_end(st) ==
    Then(end_run(st), LAMBDA a :
    Do([a EXCEPT !.srt.m_sorter = internal_end(@)], LAMBDA b :
    Do(b.srt.m_sorter.m_largestItem, LAMBDA largestItem :
        IF largestItem = 0 THEN [b EXCEPT !.srt.pc = "ended"]
        ELSE IF b.srt.m_memAvail <= writer_memory_usage
        THEN Throw(b, "no_memory_merge")
        ELSE Do((b.srt.m_memAvail - writer_memory_usage)
                    \div (largestItem + reader_memory_usage), LAMBDA fanout :
                IF fanout < 2 THEN Throw(b, "no_memory_merge")
                ELSE [b EXCEPT !.srt.fanout = fanout, !.srt.i = 0,
                               !.srt.newCount = 0,
                               !.srt.initialRuns = b.srt.m_sortedRunsCount,
                               !.srt.pc = IF b.srt.m_sortedRunsCount > 1
                                          THEN "merging" ELSE "ended"]))))

\* a merge loop whose groups take one run more than the fanout
sort_merge_wide(st) ==
    Then(merge_runs(st, st.srt.i,
                    Min(st.srt.m_sortedRunsCount, st.srt.i + st.srt.fanout + 1),
                    st.srt.m_sortedRunsCount + st.srt.newCount), LAMBDA a :
    Do([a EXCEPT !.srt.i = @ + a.srt.fanout + 1, !.srt.newCount = @ + 1], LAMBDA b :
        IF b.srt.i < b.srt.m_sortedRunsCount THEN b
        ELSE [b EXCEPT !.srt.m_sortedRunsOffset = @ + b.srt.m_sortedRunsCount,
                       !.srt.m_sortedRunsCount = b.srt.newCount,
                       !.srt.i = 0, !.srt.newCount = 0,
                       !.srt.passes = @ + 1,
                       !.srt.pc = IF b.srt.newCount > 1 THEN "merging"
                                  ELSE "ended"]))

\* a merge loop that merges the runs two by two whatever the fanout
sort_merge_pairs(st) ==
    Then(merge_runs(st, st.srt.i, Min(st.srt.m_sortedRunsCount, st.srt.i + 2),
                    st.srt.m_sortedRunsCount + st.srt.newCount), LAMBDA a :
    Do([a EXCEPT !.srt.i = @ + 2, !.srt.newCount = @ + 1], LAMBDA b :
        IF b.srt.i < b.srt.m_sortedRunsCount THEN b
        ELSE [b EXCEPT !.srt.m_sortedRunsOffset = @ + b.srt.m_sortedRunsCount,
                       !.srt.m_sortedRunsCount = b.srt.newCount,
                       !.srt.i = 0, !.srt.newCount = 0,
                       !.srt.passes = @ + 1,
                       !.srt.pc = IF b.srt.newCount > 1 THEN "merging"
                                  ELSE "ended"]))

\* one round of the for loop of serialization_sort::end and, after the last
\* round of a pass, the end of the pass
sort_merge(st) ==
    Then(merge_runs(st, st.srt.i,
                    Min(st.srt.m_sortedRunsCount, st.srt.i + st.srt.fanout),
                    st.srt.m_sortedRunsCount + st.srt.newCount), LAMBDA a :
    Do([a EXCEPT !.srt.i = @ + a.srt.fanout, !.srt.newCount = @ + 1], LAMBDA b :
        IF b.srt.i < b.srt.m_sortedRunsCount THEN b
        ELSE [b EXCEPT !.srt.m_sortedRunsOffset = @ + b.srt.m_sortedRunsCount,
                       !.srt.m_sortedRunsCount = b.srt.newCount,
                       !.srt.i = 0, !.srt.newCount = 0,
                       !.srt.passes = @ + 1,
                       !.srt.pc = IF b.srt.newCount > 1 THEN "merging"
                                  ELSE "ended"]))

\* serialization_sort::pull
sort_pull(st) ==
    Then(IF st.srt.m_open THEN st
         ELSE IF sorted_run_path(st.srt, 0) \notin DOMAIN st.runs
              THEN Throw(st, "io_error")
              ELSE [st EXCEPT !.srt.m_open = TRUE, !.srt.m_reader = 0,
                              !.srt.peakOpen = Max(@, 1)], LAMBDA a :
        IF a.srt.m_reader >= Len(a.runs[sorted_run_path(a.srt, 0)])
        THEN Throw(a, "end_of_stream")
        ELSE [a EXCEPT !.out = a.runs[sorted_run_path(a.srt, 0)][a.srt.m_reader + 1],
                       !.srt.m_reader = @ + 1])

\* a destructor that removes the run files sorted_run_path(i) without
\* putting m_sortedRunsOffset back to 0
sort_destroy_relative(st) ==
    [st EXCEPT !.runs = RemoveRuns(@, {sorted_run_path(st.srt, i) :
                            i \in st.srt.m_firstFileUsed..st.srt.m_lastFileUsed}),
               !.srt.peakOpen = Max(@, 1)]

\* serialization_sort::~serialization_sort
sort_destroy(st) ==
    Do([st EXCEPT !.srt.m_sortedRunsOffset = 0], LAMBDA a :
        [a EXCEPT !.runs = RemoveRuns(@, {sorted_run_path(a.srt, i) :
                            i \in a.srt.m_firstFileUsed..a.srt.m_lastFileUsed}),
                  !.srt.peakOpen =
                        IF \E i \in a.srt.m_firstFileUsed..a.srt.m_lastFileUsed :
                                sorted_run_path(a.srt, i) \in DOMAIN a.runs
                        THEN Max(@, 1) ELSE @])

\* serialization_sort::can_pull
can_pull(st) ==
    IF ~st.srt.m_open THEN TRUE
    ELSE st.srt.m_reader < Len(st.runs[sorted_run_path(st.srt, 0)])

(***************************************************************************)
(* The sorter's operations as actions.                                     *)
(***************************************************************************)
SortCur == [srt |-> srt, runs |-> runs, res |-> "ok", out |-> 0]

\* the state an operation leaves; after an exception the sorter is not used
\* again
SortCommit(st, pc) ==
    /\ srt' = [st.srt EXCEPT !.pc = IF st.res # "ok" THEN "failed" ELSE pc]
    /\ runs' = st.runs
    /\ sres' = st.res
    /\ UNCHANGED <<rets, streamVars, phaseVars, moreVars>>

SortBegin ==
    /\ srt.pc = "new"
    /\ \E st \in {sort_begin(SortCur)} : SortCommit(st, "pushing")
    /\ UNCHANGED <<pushed, pulled>>

SortPush(item) ==
    /\ srt.pc = "pushing"
    /\ Len(pushed) < MaxPush
    /\ \E st \in {sort_push(SortCur, item)} : SortCommit(st, "pushing")
    /\ pushed' = Append(pushed, item)
    /\ UNCHANGED pulled

SortEnd ==
    /\ srt.pc = "pushing"
    /\ \E st \in {sort_end(SortCur)} : SortCommit(st, st.srt.pc)
    /\ UNCHANGED <<pushed, pulled>>

SortMerge ==
    /\ srt.pc = "merging"
    /\ \E st \in {sort_merge(SortCur)} : SortCommit(st, st.srt.pc)
    /\ UNCHANGED <<pushed, pulled>>

SortPull ==
    /\ srt.pc = "ended"
    /\ \E st \in {sort_pull(SortCur)} :
        /\ SortCommit(st, "ended")
        /\ pulled' = IF st.res = "ok" THEN Append(pulled, st.out) ELSE pulled
    /\ UNCHANGED pushed

\* the sorter goes out of scope, between two calls or after an exception
SortDestroy ==
    /\ srt.pc \in {"new", "pushing", "ended", "failed"}
    /\ \E st \in {sort_destroy(SortCur)} :
        /\ srt' = [st.srt EXCEPT !.pc = "destroyed"]
        /\ runs' = st.runs
    /\ UNCHANGED <<pushed, pulled, sres, rets, streamVars, phaseVars, moreVars>>

StreamIdle ==
    /\ ss = NewStream /\ file = NoFile /\ fd = "closed" /\ res = "ok"
    /\ out = <<>> /\ iolog = <<>> /\ op = OpRec("new", "", FALSE, 0)
    /\ ndebug = FALSE
    /\ NoScenario

InitSort ==
    /\ StreamIdle
    /\ PhaseIdle
    /\ srt \in {NewSort(mem, itsz) : mem \in MemAvails, itsz \in ItemSizes}
    /\ runs = <<>> /\ pushed = <<>> /\ pulled = <<>> /\ sres = "ok"
    /\ rets = <<>>

NextSort ==
    \/ SortBegin
    \/ \E item \in Items : SortPush(item)
    \/ SortEnd
    \/ SortMerge
    \/ SortPull
    \/ SortDestroy

SpecSort == InitSort /\ [][NextSort]_vars

(***************************************************************************)
(* begin() alone, on sorters constructed with a wider range of memAvail    *)
(* and minimumItemSize.                                                    *)
(***************************************************************************)
\* largest memAvail
MaxParamMem == 60
\* largest minimumItemSize
MaxParamItem == 4

InitParams ==
    /\ StreamIdle
    /\ PhaseIdle
    /\ srt \in {NewSort(mem, itsz) : mem \in 0..MaxParamMem, itsz \in 1..MaxParamItem}
    /\ runs = <<>> /\ pushed = <<>> /\ pulled = <<>> /\ sres = "ok"
    /\ rets = <<>>

NextParams == SortBegin

SpecParams == InitParams /\ [][NextParams]_vars

(***************************************************************************)
(* serialization_internal_sort used on its own: srt is the internal        *)
(* sorter, pushed the items given to push() since the last begin() or      *)
(* reset() and rets what these calls returned.                             *)
(***************************************************************************)
\* largest buffer size given to begin()
MaxBuffer == 3
\* largest number of expected items given to begin()
MaxExpected == 1
\* largest number of push() calls between two resets
MaxInternalPush == 3

othersOfInternal == <<runs, pulled, streamVars, phaseVars, moreVars>>

IntBegin(buffer, nItems) ==
    /\ srt' = internal_begin(srt, buffer, nItems)
    /\ pushed' = <<>> /\ rets' = <<>> /\ sres' = "begin"
    /\ UNCHANGED othersOfInternal

IntPush(item) ==
    /\ Len(pushed) < MaxInternalPush
    /\ srt' = internal_push(srt, item)
    /\ pushed' = Append(pushed, item)
    /\ rets' = Append(rets, ~srt'.m_full)
    /\ sres' = "push"
    /\ UNCHANGED othersOfInternal

IntSort ==
    /\ sres = "push"
    /\ srt' = internal_sort(srt)
    /\ sres' = "sort"
    /\ UNCHANGED <<pushed, rets, othersOfInternal>>

IntReset ==
    /\ srt' = internal_reset(srt)
    /\ pushed' = <<>> /\ rets' = <<>> /\ sres' = "reset"
    /\ UNCHANGED othersOfInternal

IntEnd ==
    /\ srt' = internal_end(srt)
    /\ pushed' = <<>> /\ rets' = <<>> /\ sres' = "end"
    /\ UNCHANGED othersOfInternal

InitInternal ==
    /\ StreamIdle
    /\ PhaseIdle
    /\ srt = NewInternalSort
    /\ runs = <<>> /\ pushed = <<>> /\ pulled = <<>> /\ sres = "new"
    /\ rets = <<>>

NextInternal ==
    \/ \E buffer \in 0..MaxBuffer, nItems \in 0..MaxExpected : IntBegin(buffer, nItems)
    \/ \E item \in Items : IntPush(item)
    \/ IntSort
    \/ IntReset
    \/ IntEnd

SpecInternal == InitInternal /\ [][NextInternal]_vars

(***************************************************************************)
(* The pipelining graph: calc_phases and go_all of graph_traits.  A node   *)
(* is the id of its token; the ids of a segment_map are 0..NumNodes-1 and  *)
(* pipe_segment addresses ascend with the ids.  The relations are the      *)
(* entries of the authoritative map's relmap_t, a multimap ordered by its  *)
(* key, the relation's first id.                                           *)
(***************************************************************************)
\* number of pipe segments of the pipeline
NumNodes == 3
\* largest number of relations of the pipeline
MaxRel == 2

Nodes == 0..(NumNodes - 1)
Relations == {"pushes", "pulls", "depends"}
RelTriples == {tr \in Nodes \X Nodes \X Relations : tr[1] # tr[2]}

\* the relation multimaps: sequences of relations ordered by their key
RelInputs ==
    {s \in UNION {[1..n -> RelTriples] : n \in 0..MaxRel} :
        \A i \in 1..(Len(s) - 1) : s[i][1] <= s[i + 1][1]}

\* tpie::disjoint_sets after the union_set calls of calc_phases: the set of
\* a node holds the nodes linked to it by pushes and pulls relations
RECURSIVE GrowSet(_, _)
GrowSet(r, set) ==
    Do(set \cup {n \in Nodes : \E k \in 1..Len(r) :
                    /\ r[k][3] # "depends"
                    /\ \/ (r[k][1] \in set /\ r[k][2] = n)
                       \/ (r[k][2] \in set /\ r[k][1] = n)},
       LAMBDA next : IF next = set THEN set ELSE GrowSet(r, next))

SetOf(r, n) == GrowSet(r, {n})

\* the sets of the nodes n, n + 1, ... in this order
RECURSIVE SetsFrom(_, _)
SetsFrom(r, n) ==
    IF n >= NumNodes THEN <<>> ELSE <<SetOf(r, n)>> \o SetsFrom(r, n + 1)

\* the find_set functions disjoint_sets may implement: every node is mapped
\* to one member of its set, the same for all the set's members
FindSets(r) ==
    Do(SetsFrom(r, 0), LAMBDA sets :
        {f \in [Nodes -> Nodes] :
            \A n \in Nodes : f[n] \in sets[n + 1]
                             /\ \A m \in sets[n + 1] : f[m] = f[n]})

\* the elements of a set of numbers in ascending order (std::map order)
RECURSIVE Ascending(_)
Ascending(set) ==
    IF set = {} THEN <<>>
    ELSE Do(CHOOSE x \in set : \A y \in set : x <= y, LAMBDA x :
            <<x>> \o Ascending(set \ {x}))

Range(s) == {s[k] : k \in 1..Len(s)}

\* a depends that records the edge from the depender to the dependee
phasegraph_depends_reversed(edges, depender, dependee) ==
    [edges EXCEPT ![depender] = Append(@, dependee)]

\* phasegraph::depends
phasegraph_depends(edges, depender, dependee) ==
    [edges EXCEPT ![dependee] = Append(@, depender)]

\* phasegraph::is_depending
is_depending(edges, depender, dependee) == dependee \in Range(edges[depender])

\* the loop of calc_phases that establishes the phase relationships, from
\* relation k on
RECURSIVE phase_edges(_, _, _, _)
phase_edges(edges, r, find_set, k) ==
    IF k > Len(r) THEN edges
    ELSE IF r[k][3] = "depends"
    THEN Do(phasegraph_depends(edges, find_set[r[k][1]], find_set[r[k][2]]),
            LAMBDA e : phase_edges(e, r, find_set, k + 1))
    ELSE phase_edges(edges, r, find_set, k + 1)

\* dfs_traversal::dfs_from and its loop over the neighbours, from
\* neighbour k on; d holds the finish times and the clock
RECURSIVE dfs_from(_, _, _)
RECURSIVE dfs_neighbours(_, _, _, _)
dfs_from(edges, d, start) ==
    Do([d EXCEPT !.finish_times[start] = d.time, !.time = @ + 1], LAMBDA d1 :
    Do(dfs_neighbours(edges, d1, edges[start], 1), LAMBDA d2 :
        [d2 EXCEPT !.finish_times[start] = d2.time, !.time = @ + 1]))

dfs_neighbours(edges, d, neighbours, k) ==
    IF k > Len(neighbours) THEN d
    ELSE IF d.finish_times[neighbours[k]] # 0
    THEN dfs_neighbours(edges, d, neighbours, k + 1)
    ELSE Do(dfs_from(edges, d, neighbours[k]), LAMBDA d1 :
            dfs_neighbours(edges, d1, neighbours, k + 1))

\* the second loop of dfs_traversal::dfs: the nodes in descending map order,
\* from position k down
RECURSIVE dfs_all(_, _, _, _)
dfs_all(edges, d, nodes, k) ==
    IF k = 0 THEN d
    ELSE IF d.finish_times[nodes[k]] # 0 THEN dfs_all(edges, d, nodes, k - 1)
    ELSE Do(dfs_from(edges, d, nodes[k]), LAMBDA d1 :
            dfs_all(edges, d1, nodes, k - 1))

\* a dfs whose second loop takes the nodes in ascending map order
dfs_ascending(nodeset, edges) ==
    Do(Ascending(nodeset), LAMBDA asc :
        dfs_all(edges, [finish_times |-> [n \in nodeset |-> 0], time |-> 1],
                [i \in 1..Len(asc) |-> asc[Len(asc) + 1 - i]], Len(asc)))

\* dfs_traversal::dfs on the graph with the given node set
dfs(nodeset, edges) ==
    dfs_all(edges, [finish_times |-> [n \in nodeset |-> 0], time |-> 1],
            Ascending(nodeset), Cardinality(nodeset))

\* dfs_traversal::toposort: the nodes sorted by (-finish time, node)
RECURSIVE toposort(_, _)
toposort(finish_times, nodeset) ==
    IF nodeset = {} THEN <<>>
    ELSE Do(CHOOSE x \in nodeset : \A y \in nodeset :
                \/ finish_times[x] > finish_times[y]
                \/ (finish_times[x] = finish_times[y] /\ x <= y),
            LAMBDA x : <<x>> \o toposort(finish_times, nodeset \ {x}))

\* phasegraph::execution_order, and the same traversal of a phase's
\* segment_graph
execution_order(nodeset, edges) ==
    Do(dfs(nodeset, edges), LAMBDA d : toposort(d.finish_times, nodeset))

\* add_successor calls that keep the ends of a pulls relation as they are
RECURSIVE segment_edges_unswapped(_, _, _, _, _)
segment_edges_unswapped(edges, r, find_set, rep, k) ==
    IF k > Len(r) THEN edges
    ELSE IF r[k][3] # "depends" /\ find_set[r[k][1]] = rep
    THEN Do([edges EXCEPT ![r[k][1]] = Append(@, r[k][2])], LAMBDA e :
            segment_edges_unswapped(e, r, find_set, rep, k + 1))
    ELSE segment_edges_unswapped(edges, r, find_set, rep, k + 1)

\* the add_successor calls of calc_phases for the phase of representative
\* rep, from relation k on
RECURSIVE segment_edges(_, _, _, _, _)
segment_edges(edges, r, find_set, rep, k) ==
    IF k > Len(r) THEN edges
    ELSE IF r[k][3] # "depends" /\ find_set[r[k][1]] = rep
    THEN Do(IF r[k][3] = "pulls" THEN <<r[k][2], r[k][1]>>
            ELSE <<r[k][1], r[k][2]>>, LAMBDA ft :
         Do([edges EXCEPT ![ft[1]] = Append(@, ft[2])], LAMBDA e :
            segment_edges(e, r, find_set, rep, k + 1)))
    ELSE segment_edges(edges, r, find_set, rep, k + 1)

\* the null pointer phase::phase() stores in m_initiator
NoNode == -1

\* segment_map::in_degree: the relations of the given kind that end in id
in_degree(r, id, relation) ==
    Cardinality({k \in 1..Len(r) : r[k][2] = id /\ r[k][3] = relation})

\* phase::is_initiator
is_initiator(r, s) == in_degree(r, s, "pushes") = 0 /\ in_degree(r, s, "pulls") = 0

\* phase::set_initiator
set_initiator(initiator, s) == s

\* m_initiator after the phase::add calls for the segments k, k + 1, ...
RECURSIVE add_initiators(_, _, _, _)
add_initiators(r, segments, k, initiator) ==
    IF k > Len(segments) THEN initiator
    ELSE add_initiators(r, segments, k + 1,
                        IF is_initiator(r, segments[k])
                        THEN set_initiator(initiator, segments[k]) ELSE initiator)

\* a phase that receives its representative only
make_phase_alone(r, find_set, rep) ==
    [m_segments |-> <<rep>>,
     m_initiator |-> add_initiators(r, <<rep>>, 1, NoNode),
     edges |-> segment_edges([n \in {m \in Nodes : find_set[m] = rep} |-> <<>>],
                             r, find_set, rep, 1)]

\* the phase calc_phases builds for the representative rep: the
\* representative is added first, then the other nodes of its set by id
make_phase(r, find_set, rep) ==
    Do({n \in Nodes : find_set[n] = rep}, LAMBDA members :
    Do(<<rep>> \o Ascending(members \ {rep}), LAMBDA segments :
        [m_segments |-> segments,
         m_initiator |-> add_initiators(r, segments, 1, NoNode),
         edges |-> segment_edges([n \in members |-> <<>>], r, find_set, rep, 1)]))

\* graph_traits::calc_phases
calc_phases(r, find_set) ==
    Do({find_set[n] : n \in Nodes}, LAMBDA reps :
    Do(phase_edges([n \in reps |-> <<>>], r, find_set, 1), LAMBDA edges :
    Do(execution_order(reps, edges), LAMBDA internalexec :
        [m_phases |-> [i \in 1..Len(internalexec) |->
                            make_phase(r, find_set, internalexec[i])],
         m_evacuatePrevious |->
            [i \in 1..Len(internalexec) |->
                i > 1 /\ ~is_depending(edges, internalexec[i], internalexec[i - 1])]])))

\* the order in which phase::go calls begin() and end()
go_order(ph) == execution_order(Range(ph.m_segments), ph.edges)

\* the position of go_all: the stage of the loop body, the phase i (from 1),
\* the order phase::go computed and the position k in it
GoAt(stage, i, k, order) == [stage |-> stage, i |-> i, k |-> k, order |-> order]

GoIdle(stage) == GoAt(stage, 0, 0, <<>>)

\* go_all after the last end() of phase i
go_next_phase(g, i) ==
    IF i < Len(g.m_phases) THEN GoAt("evacuate", i + 1, 0, <<>>) ELSE GoIdle("done")

\* phase::go after its k-th begin() call
go_after_begin(g, i, k, order) ==
    IF k < Len(order) THEN GoAt("begin", i, k + 1, order)
    ELSE GoAt("go", i, 0, order)

\* a phase::go that starts the next phase after the first end() call
go_after_end_first_only(g, i, k, order) == go_next_phase(g, i)

\* phase::go after its k-th end() call
go_after_end(g, i, k, order) ==
    IF k < Len(order) THEN GoAt("end", i, k + 1, order)
    ELSE go_next_phase(g, i)

othersOfPhase == <<streamVars, sortVars, amem, maps, moreVars>>

\* graph_traits::graph_traits
Construct ==
    /\ gpc = GoIdle("new")
    /\ \E find_set \in FindSets(rel) : gt' = calc_phases(rel, find_set)
    /\ gpc' = GoIdle("ready")
    /\ UNCHANGED <<rel, calls, othersOfPhase>>

\* go_all up to its second loop
GoAll ==
    /\ gpc = GoIdle("ready")
    /\ gpc' = IF Len(gt.m_phases) = 0 THEN GoIdle("done")
              ELSE GoAt("evacuate", 1, 0, <<>>)
    /\ UNCHANGED <<rel, gt, calls, othersOfPhase>>

\* the head of the loop body of go_all, evacuate_all on the previous phase,
\* and the traversal that opens phase::go
GoEvacuate ==
    /\ gpc.stage = "evacuate"
    /\ calls' = IF gt.m_evacuatePrevious[gpc.i]
                THEN Append(calls, <<"evacuate", gpc.i - 1>>) ELSE calls
    /\ gpc' = GoAt("begin", gpc.i, 1, go_order(gt.m_phases[gpc.i]))
    /\ UNCHANGED <<rel, gt, othersOfPhase>>

\* one pass of the first loop of phase::go
GoBegin ==
    /\ gpc.stage = "begin"
    /\ calls' = Append(calls, <<"begin", gpc.order[gpc.k]>>)
    /\ gpc' = go_after_begin(gt, gpc.i, gpc.k, gpc.order)
    /\ UNCHANGED <<rel, gt, othersOfPhase>>

\* m_initiator->go() of phase::go; the call through a null m_initiator is
\* undefined: the process ends, or the call is passed over
GoInitiator ==
    /\ gpc.stage = "go"
    /\ IF gt.m_phases[gpc.i].m_initiator = NoNode
       THEN \/ gpc' = GoIdle("crashed") /\ calls' = calls
            \/ gpc' = GoAt("end", gpc.i, 1, gpc.order) /\ calls' = calls
       ELSE /\ calls' = Append(calls, <<"go", gpc.i>>)
            /\ gpc' = GoAt("end", gpc.i, 1, gpc.order)
    /\ UNCHANGED <<rel, gt, othersOfPhase>>

\* a second loop of phase::go that runs from the last node to the first
GoEnd_backwards ==
    /\ gpc.stage = "end"
    /\ calls' = Append(calls, <<"end", gpc.order[Len(gpc.order) + 1 - gpc.k]>>)
    /\ gpc' = go_after_end(gt, gpc.i, gpc.k, gpc.order)
    /\ UNCHANGED <<rel, gt, othersOfPhase>>

\* one pass of the second loop of phase::go
GoEnd ==
    /\ gpc.stage = "end"
    /\ calls' = Append(calls, <<"end", gpc.order[gpc.k]>>)
    /\ gpc' = go_after_end(gt, gpc.i, gpc.k, gpc.order)
    /\ UNCHANGED <<rel, gt, othersOfPhase>>

InitPhase ==
    /\ StreamIdle
    /\ SortIdle
    /\ rel \in RelInputs
    /\ gt = <<>>
    /\ gpc = GoIdle("new")
    /\ calls = <<>>
    /\ amem = <<>>
    /\ maps = <<>>
    /\ jm = <<>> /\ acc = <<>> /\ rdr = <<>>

NextPhase ==
    \/ Construct
    \/ GoAll
    \/ GoEvacuate
    \/ GoBegin
    \/ GoInitiator
    \/ GoEnd

SpecPhase == InitPhase /\ [][NextPhase]_vars

(***************************************************************************)
(* Memory assignment of a phase: phase::add and phase::assign_memory.  A   *)
(* node is its position in m_segments.  The memory fractions, doubles in   *)
(* the code, are whole weights, and frac/fraction*remaining is compared    *)
(* and truncated as the exact quotient.                                    *)
(***************************************************************************)
\* largest number of nodes of the phase
MaxSegments == 3
\* largest minimum memory of a node
MaxMin == 1
\* largest budget of the phase
MaxBudget == 3

\* the memory fractions a node asks for
Weights == {0, 1}

\* what a node reports: get_minimum_memory() and get_memory_fraction()
NodeMemory == [min : 0..MaxMin, frac : Weights]

\* what the conversion of a double that is not finite to memory_size_type
\* may yield
UndefinedCasts == {0, WordMod \div 2, WordMod - 1}

\* phase::phase()
NewPhase ==
    [m_segments |-> <<>>, m_memoryFraction |-> 0, m_minimumMemory |-> 0,
     pc |-> "added", m |-> 0, order |-> <<>>, k |-> 0,
     prepared |-> <<>>, set |-> <<>>, underflow |-> FALSE, pins |-> <<>>]

\* phase::add of a node that reports s: the sums of the phase take the
\* node's values of this moment
phase_add(ph, s) ==
    [ph EXCEPT !.m_segments = Append(@, s),
               !.m_memoryFraction = @ + s.frac,
               !.m_minimumMemory = (@ + s.min) % WordMod]

\* the phase after the phase::add calls of calc_phases for the nodes of segs
RECURSIVE phase_add_all(_, _)
phase_add_all(ph, segs) ==
    IF segs = <<>> THEN ph
    ELSE phase_add_all(phase_add(ph, Head(segs)), Tail(segs))

\* an assign_minimum_memory that hands out the minimum of the phase
assign_minimum_memory_shared(ph, i) ==
    IF i > Len(ph.m_segments) THEN ph
    ELSE [ph EXCEPT !.set = @ \o [j \in 1..(Len(ph.m_segments) - i + 1) |->
                                    <<i + j - 1, ph.m_minimumMemory>>]]

\* phase::assign_minimum_memory, from node i on
RECURSIVE assign_minimum_memory(_, _)
assign_minimum_memory(ph, i) ==
    IF i > Len(ph.m_segments) THEN ph
    ELSE assign_minimum_memory(
            [ph EXCEPT !.set = Append(@, <<i, ph.m_segments[i].min>>)], i + 1)

\* to_assign < min for to_assign = frac/fraction * remaining; the quotient
\* by a fraction of 0 is an infinity or a NaN, which is below nothing
below_minimum(s, remaining, fraction) ==
    IF fraction > 0 THEN s.frac * remaining < s.min * fraction
    ELSE IF fraction < 0 THEN s.frac * remaining > s.min * fraction
    ELSE FALSE

\* static_cast<memory_size_type>(frac/fraction * remaining); undefined
\* stands for the result of converting a double that is not finite
cast_to_assign(s, remaining, fraction, undefined) ==
    IF fraction > 0 THEN (s.frac * remaining) \div fraction
    ELSE IF fraction < 0 THEN 0
    ELSE undefined

\* the body of the first loop of assign_memory for a node below its minimum
assign_below(ph, st, i) ==
    [st EXCEPT !.done = FALSE,
               !.set = Append(@, <<i, ph.m_segments[i].min>>),
               !.assigned = @ \cup {i},
               !.pins[Len(st.pins)] = @ \cup {i},
               !.underflow = @ \/ ph.m_segments[i].min > st.remaining,
               !.remaining = (@ - ph.m_segments[i].min) % WordMod,
               !.fraction = @ - ph.m_segments[i].frac]

\* the first for loop of the while loop of assign_memory, from node i on
RECURSIVE assign_first_loop(_, _, _)
assign_first_loop(ph, st, i) ==
    IF i > Len(ph.m_segments) THEN st
    ELSE IF i \notin st.assigned
            /\ below_minimum(ph.m_segments[i], st.remaining, st.fraction)
    THEN assign_first_loop(ph, assign_below(ph, st, i), i + 1)
    ELSE assign_first_loop(ph, st, i + 1)

\* a second for loop that does not pass over the assigned nodes
RECURSIVE assign_second_loop_all(_, _, _, _)
assign_second_loop_all(ph, st, i, undefined) ==
    IF i > Len(ph.m_segments) THEN st
    ELSE assign_second_loop_all(ph,
            [st EXCEPT !.set = Append(@,
                <<i, cast_to_assign(ph.m_segments[i], st.remaining,
                                    st.fraction, undefined)>>)],
            i + 1, undefined)

\* the second for loop of the while loop of assign_memory, from node i on
RECURSIVE assign_second_loop(_, _, _, _)
assign_second_loop(ph, st, i, undefined) ==
    IF i > Len(ph.m_segments) THEN st
    ELSE IF i \in st.assigned THEN assign_second_loop(ph, st, i + 1, undefined)
    ELSE assign_second_loop(ph,
            [st EXCEPT !.set = Append(@,
                <<i, cast_to_assign(ph.m_segments[i], st.remaining,
                                    st.fraction, undefined)>>)],
            i + 1, undefined)

\* the while loop of assign_memory; pins holds, for every pass of the loop,
\* the nodes the pass assigned their minimum to
RECURSIVE assign_while(_, _, _)
assign_while(ph, st, undefined) ==
    Do(assign_first_loop(ph, [st EXCEPT !.done = TRUE,
                                        !.pins = Append(@, {})], 1), LAMBDA st1 :
        IF ~st1.done THEN assign_while(ph, st1, undefined)
        ELSE assign_second_loop(ph, st1, 1, undefined))

\* phase::assign_memory after its prepare() calls
assign_memory(ph, undefined) ==
    IF ph.m < ph.m_minimumMemory THEN assign_minimum_memory(ph, 1)
    ELSE IF ph.m_memoryFraction = 0 THEN assign_minimum_memory(ph, 1)
    ELSE Do(assign_while(ph, [remaining |-> ph.m, fraction |-> ph.m_memoryFraction,
                              assigned |-> {}, done |-> TRUE,
                              set |-> ph.set, underflow |-> FALSE,
                              pins |-> <<>>], undefined),
            LAMBDA st : [ph EXCEPT !.set = st.set, !.underflow = st.underflow,
                                   !.pins = st.pins])

othersOfMemory == <<streamVars, sortVars, rel, gt, gpc, calls, maps, moreVars>>

\* the call assign_memory(m) up to its first prepare() call
MemCall(m) ==
    /\ amem.pc = "added"
    /\ amem' = [amem EXCEPT !.m = m, !.pc = "prepare", !.k = 1,
                    !.order = execution_order(DOMAIN amem.m_segments,
                                [n \in DOMAIN amem.m_segments |-> <<>>])]
    /\ UNCHANGED othersOfMemory

\* one pass of the loop of prepare() calls: the node may call
\* set_minimum_memory and set_memory_fraction
MemPrepare(s) ==
    /\ amem.pc = "prepare" /\ amem.k <= Len(amem.order)
    /\ amem' = [amem EXCEPT !.m_segments[amem.order[amem.k]] = s,
                            !.prepared = Append(@, amem.order[amem.k]),
                            !.k = @ + 1]
    /\ UNCHANGED othersOfMemory

\* assign_memory after the loop of prepare() calls
MemAssign(undefined) ==
    /\ amem.pc = "prepare" /\ amem.k > Len(amem.order)
    /\ amem' = [assign_memory(amem, undefined) EXCEPT !.pc = "assigned"]
    /\ UNCHANGED othersOfMemory

InitMemory ==
    /\ StreamIdle
    /\ SortIdle
    /\ rel = <<>> /\ gt = <<>> /\ gpc = "idle" /\ calls = <<>> /\ maps = <<>>
    /\ jm = <<>> /\ acc = <<>> /\ rdr = <<>>
    /\ \E n \in 1..MaxSegments : \E segs \in [1..n -> NodeMemory] :
            amem = phase_add_all(NewPhase, segs)

NextMemory ==
    \/ \E m \in 0..MaxBudget : MemCall(m)
    \/ \E s \in NodeMemory : MemPrepare(s)
    \/ \E undefined \in UndefinedCasts : MemAssign(undefined)

SpecMemory == InitMemory /\ [][NextMemory]_vars

(***************************************************************************)
(* The token maps: segment_map and segment_token.  A segment_map object is *)
(* its address, 1..NumTokens, 0 is the null pointer; token t was made by   *)
(* segment_token(owner), and the last token as a free token by             *)
(* segment_token(), which created the map at address t and registered the  *)
(* id t - 1 in it, for the owner t or for the null pointer.  copied holds  *)
(* the token that was copied last and the owner the copy was made for.     *)
(***************************************************************************)
\* number of tokens, each constructed with its own map
NumTokens == 3

MapAddrs == 1..NumTokens

\* the ids that m_tokens maps
TokenIds(tokens) == {e[1] : e \in tokens}

\* segment_map::set_token: std::map::insert keeps an entry that exists
set_token(tokens, id, token) ==
    IF id \in TokenIds(tokens) THEN tokens ELSE tokens \cup {<<id, token>>}

\* segment_map::get: 0 is the null pointer
get(tokens, id) ==
    IF id \in TokenIds(tokens) THEN (CHOOSE e \in tokens : e[1] = id)[2] ELSE 0

\* the set_token calls of link for the entries of the target
RECURSIVE set_tokens(_, _)
set_tokens(tokens, from) ==
    IF from = {} THEN tokens
    ELSE Do(CHOOSE e \in from : \A f \in from : e[1] <= f[1], LAMBDA e :
            set_tokens(set_token(tokens, e[1], e[2]), from \ {e}))

\* a link that takes over no token of the target
RECURSIVE link_forget_tokens(_, _, _)
link_forget_tokens(objs, self, target) ==
    IF target = self THEN objs
    ELSE IF objs[target].m_rank > objs[self].m_rank
    THEN link_forget_tokens(objs, target, self)
    ELSE [objs EXCEPT
            ![self].m_relations = @ \o objs[target].m_relations,
            ![self].m_rank = IF objs[target].m_rank = @ THEN @ + 1 ELSE @,
            ![target].m_tokens = {},
            ![target].m_authority = self]

\* segment_map::link, called on the map at address self
RECURSIVE link(_, _, _)
link(objs, self, target) ==
    IF target = self THEN objs
    ELSE IF objs[target].m_rank > objs[self].m_rank
    THEN link(objs, target, self)
    ELSE [objs EXCEPT
            ![self].m_tokens = set_tokens(@, objs[target].m_tokens),
            ![self].m_relations = @ \o objs[target].m_relations,
            ![self].m_rank = IF objs[target].m_rank = @ THEN @ + 1 ELSE @,
            ![target].m_tokens = {},
            ![target].m_authority = self]

\* the first loop of find_authority: the map without authority reached
\* from i
RECURSIVE authority_from(_, _)
authority_from(objs, i) ==
    IF objs[i].m_authority = 0 THEN i
    ELSE authority_from(objs, objs[i].m_authority)

\* the path compression of find_authority, from j on
RECURSIVE compress_from(_, _, _)
compress_from(objs, j, result) ==
    IF objs[j].m_authority = 0 THEN objs
    ELSE compress_from([objs EXCEPT ![j].m_authority = result],
                       objs[j].m_authority, result)

\* segment_map::find_authority on the map at address self: the maps after
\* the call and the map returned
find_authority(objs, self) ==
    IF objs[self].m_authority = 0 THEN <<objs, self>>
    ELSE Do(authority_from(objs, objs[self].m_authority), LAMBDA result :
            <<compress_from(objs, objs[self].m_authority, result), result>>)

\* segment_map::union_set on the map at address self
union_set(objs, self, target) ==
    Do(find_authority(objs, self), LAMBDA fa :
    Do(find_authority(fa[1], target), LAMBDA fb :
        link(fb[1], fa[2], fb[2])))

othersOfTokens == <<streamVars, sortVars, rel, gt, gpc, calls, amem, moreVars>>

\* the record of which maps were united, after a call that unites a and b:
\* every map is given the least address of the maps united with it
unite(united, a, b) ==
    [c \in DOMAIN united |->
        IF united[c] \in {united[a], united[b]}
        THEN Min(united[a], united[b]) ELSE united[c]]

\* a.union_set(b) on two maps
UnionSet(a, b) ==
    /\ maps' = [maps EXCEPT !.objs = union_set(@, a, b),
                            !.united = unite(@, a, b)]
    /\ UNCHANGED othersOfTokens

\* segment_token::map_union on token t with token u: the maps and the
\* tokens after the call
map_union(objs, toks, t, u) ==
    IF toks[t].m_tokens = toks[u].m_tokens THEN <<objs, toks>>
    ELSE Do(union_set(objs, toks[t].m_tokens, toks[u].m_tokens), LAMBDA objs1 :
         Do(find_authority(objs1, toks[t].m_tokens), LAMBDA fa :
            <<fa[1], [toks EXCEPT ![t].m_tokens = fa[2]]>>))

\* t.map_union(u) on two tokens
MapUnion(t, u) ==
    /\ maps' = [maps EXCEPT
            !.objs = map_union(maps.objs, maps.toks, t, u)[1],
            !.toks = map_union(maps.objs, maps.toks, t, u)[2],
            !.united = unite(@, maps.toks[t].m_tokens, maps.toks[u].m_tokens)]
    /\ UNCHANGED othersOfTokens

\* a.find_authority() on a map
FindAuthority(a) ==
    /\ maps' = [maps EXCEPT !.objs = find_authority(maps.objs, a)[1]]
    /\ UNCHANGED othersOfTokens

\* segment_token(other, newOwner, freshToken): the copy of token t for a
\* new owner registers its id in the map the token points to; freshToken is
\* given for a free token and for no other, and only while the assertion on
\* get(m_id) holds
TokenCopy(t, newOwner) ==
    /\ maps.toks[t].m_free =>
            get(maps.objs[maps.toks[t].m_tokens].m_tokens, maps.toks[t].m_id) = 0
    /\ maps' = [maps EXCEPT
            !.objs[maps.toks[t].m_tokens].m_tokens =
                set_token(@, maps.toks[t].m_id, newOwner),
            !.registered[maps.toks[t].m_tokens] = @ \cup {maps.toks[t].m_id},
            !.copied = <<t, newOwner>>]
    /\ UNCHANGED othersOfTokens

InitTokens ==
    /\ StreamIdle
    /\ SortIdle
    /\ rel = <<>> /\ gt = <<>> /\ gpc = "idle" /\ calls = <<>> /\ amem = <<>>
    /\ jm = <<>> /\ acc = <<>> /\ rdr = <<>>
    /\ \E free \in {{NumTokens}} :
        maps = [objs |-> [a \in MapAddrs |->
                            [m_tokens |-> {<<a - 1, IF a \in free THEN 0 ELSE a>>},
                             m_relations |-> <<>>,
                             m_authority |-> 0, m_rank |-> 0]],
                toks |-> [t \in MapAddrs |->
                            [m_tokens |-> t, m_id |-> t - 1, m_free |-> t \in free]],
                united |-> [a \in MapAddrs |-> a],
                registered |-> [a \in MapAddrs |-> {a - 1}],
                copied |-> <<>>]

NextTokens ==
    \/ \E a, b \in MapAddrs : UnionSet(a, b)
    \/ \E t, u \in MapAddrs : MapUnion(t, u)
    \/ \E a \in MapAddrs : FindAuthority(a)
    \/ \E t \in MapAddrs : TokenCopy(t, NumTokens + t)

SpecTokens == InitTokens /\ [][NextTokens]_vars

(***************************************************************************)
(* The job pool: the job manager, its worker threads and the jobs.  Every  *)
(* critical section of the code is two steps, the acquisition of           *)
(* jobs_mutex and the section itself; a thread that waits on a condition   *)
(* variable has released the mutex and takes it again when it wakes.       *)
(***************************************************************************)
\* number of worker threads of the pool
NumWorkers == 2

\* number of jobs: job 1 is enqueued by the main thread as a root job, every
\* other job by operator() of its parent
NumJobs == 3

\* capacity of the queue m_jobs
QueueCap == 1

Workers == 1..NumWorkers

\* the threads: the workers and the main thread, thread 0
Threads == {0} \cup Workers

Jobs == 1..NumJobs

\* which job enqueues which: the parent of every job but the first
JobPlans == {p \in [Jobs -> 0..NumJobs] :
                p[1] = 0 /\ \A j \in Jobs \ {1} : p[j] \in 1..(j - 1)}

\* the jobs that operator() of job j enqueues, in the order of the calls
Children(plan, j) == Ascending({c \in Jobs : plan[c] = j})

\* job::job
NewJob == [m_dependencies |-> 0, m_parent |-> 0, m_done |-> {},
           enqueued |-> FALSE, runs |-> 0, finished |-> FALSE]

\* job_manager::job_manager, and the threads before they take a step
NewJobManager(ndbg, plan) ==
    [ndebug |-> ndbg, plan |-> plan,
     m_jobs |-> <<>>, m_kill_job_pool |-> FALSE,
     jobs_mutex |-> {}, m_has_data |-> {},
     job |-> [j \in Jobs |-> NewJob],
     th |-> [t \in Threads |->
                [pc |-> IF t \in Workers THEN "loop" ELSE "start",
                 stack |-> <<>>]],
     race |-> FALSE, state |-> "running", threw |-> FALSE]

\* the thread takes jobs_mutex (boost::mutex::scoped_lock) and goes on at pc
scoped_lock(j, t, pc) ==
    [j EXCEPT !.jobs_mutex = {t}, !.th[t].pc = pc]

\* lock.unlock(), or the destructor of the scoped_lock
unlock(j, t) == [j EXCEPT !.jobs_mutex = @ \ {t}]

\* an access to m_jobs or to a dependency counter by thread t: a data race
\* when t does not hold jobs_mutex
access(j, t) == [j EXCEPT !.race = @ \/ j.jobs_mutex # {t}]

\* the job whose operator() thread t is in, and how many of its children
\* the operator has enqueued
Top(j, t) == j.th[t].stack[Len(j.th[t].stack)]

\* the call of run() on job c by thread t: operator() is entered
enter_run(j, t, c) ==
    [j EXCEPT !.th[t].stack = Append(@, [job |-> c, k |-> 0]),
              !.th[t].pc = "run",
              !.job[c].runs = @ + 1]

\* the thread leaves run(): it goes on in the operator() that called
\* enqueue(), in the worker loop or in the main program
leave_run(j, t) ==
    Do([j EXCEPT !.th[t].stack = SubSeq(@, 1, Len(@) - 1)], LAMBDA a :
        [a EXCEPT !.th[t].pc = IF a.th[t].stack # <<>> THEN "run"
                               ELSE IF t \in Workers THEN "loop"
                               ELSE "main"])

\* job::done on job c, and on its parents
RECURSIVE done(_, _)
done(job, c) ==
    Do([job EXCEPT ![c].m_dependencies = (@ - 1) % WordMod], LAMBDA a :
        IF a[c].m_dependencies # 0 THEN a
        ELSE Do(IF a[c].m_parent # 0 THEN done(a, a[c].m_parent) ELSE a,
                LAMBDA b : [b EXCEPT ![c].m_done = {}]))

\* job::enqueue on job c with the given parent, after the lock was taken,
\* for every worker the notify_one may wake; the thread goes on at pc when
\* the call returns
enqueue(j, t, c, parent, pc, woken) ==
    IF j.m_kill_job_pool
    THEN [unlock(j, t) EXCEPT
            !.threw = TRUE,
            !.th[t].pc = pc,
            !.state = IF j.th[t].stack # <<>> THEN "terminated" ELSE @]
    ELSE Do([access(j, t) EXCEPT !.job[c].m_parent = parent,
                                 !.job[c].enqueued = TRUE,
                                 !.th[t].pc = pc], LAMBDA a :
        IF ~a.ndebug /\ a.job[c].m_dependencies # 1
        THEN [a EXCEPT !.state = "aborted"]
        ELSE Do(IF parent = 0 THEN a
                ELSE [a EXCEPT !.job[parent].m_dependencies = (@ + 1) % WordMod],
                LAMBDA b :
            IF Len(b.m_jobs) >= QueueCap
            THEN enter_run(unlock(b, t), t, c)
            ELSE unlock([b EXCEPT !.m_jobs = Append(@, c),
                                  !.m_has_data = @ \ woken], t)))

\* the workers a notify_one on m_has_data may wake: one of those waiting
notify_one(j) ==
    IF j.m_has_data = {} THEN {{}} ELSE {{w} : w \in j.m_has_data}

othersOfJobs == <<streamVars, sortVars, phaseVars, acc, rdr>>

Running(t, pc) == jm.state = "running" /\ jm.th[t].pc = pc

\* worker: the scoped_lock at the head of the loop
WorkerLock(w) ==
    /\ Running(w, "loop") /\ jm.jobs_mutex = {}
    /\ jm' = scoped_lock(jm, w, "check")
    /\ UNCHANGED othersOfJobs

\* a worker that takes the front of the queue and leaves it there
worker_check_no_pop(j, w) ==
    Do(access(j, w), LAMBDA a :
        IF a.m_jobs = <<>> /\ ~a.m_kill_job_pool
        THEN [unlock(a, w) EXCEPT !.m_has_data = @ \cup {w},
                                  !.th[w].pc = "waiting"]
        ELSE IF a.m_kill_job_pool
        THEN [unlock(a, w) EXCEPT !.th[w].pc = "exited"]
        ELSE enter_run(unlock(a, w), w, Head(a.m_jobs)))

\* worker: the wait loop, the test of m_kill_job_pool and the pop
worker_check(j, w) ==
    Do(access(j, w), LAMBDA a :
        IF a.m_jobs = <<>> /\ ~a.m_kill_job_pool
        THEN [unlock(a, w) EXCEPT !.m_has_data = @ \cup {w},
                                  !.th[w].pc = "waiting"]
        ELSE IF a.m_kill_job_pool
        THEN [unlock(a, w) EXCEPT !.th[w].pc = "exited"]
        ELSE enter_run(unlock([a EXCEPT !.m_jobs = Tail(@)], w), w,
                       Head(a.m_jobs)))

WorkerCheck(w) ==
    /\ Running(w, "check")
    /\ jm' = worker_check(jm, w)
    /\ UNCHANGED othersOfJobs

\* a notified worker returns from m_has_data.wait(lock) with the mutex
WorkerWake(w) ==
    /\ Running(w, "waiting") /\ w \notin jm.m_has_data /\ jm.jobs_mutex = {}
    /\ jm' = scoped_lock(jm, w, "check")
    /\ UNCHANGED othersOfJobs

\* a condition variable may wake a waiting thread that nobody notified
SpuriousWake(t) ==
    /\ jm.state = "running"
    /\ \/ /\ jm.th[t].pc = "waiting" /\ t \in jm.m_has_data
          /\ jm' = [jm EXCEPT !.m_has_data = @ \ {t}]
       \/ /\ jm.th[t].pc = "join_wait" /\ t \in jm.job[1].m_done
          /\ jm' = [jm EXCEPT !.job[1].m_done = @ \ {t}]
    /\ UNCHANGED othersOfJobs

\* the scoped_lock of job::enqueue: the main thread enqueues job 1, at the
\* start and once more after shutdown_pool; operator() of a job enqueues
\* the job's next child
EnqueueLock(t) ==
    /\ jm.state = "running" /\ jm.jobs_mutex = {}
    /\ \/ t = 0 /\ jm.th[t].pc = "start"
       \/ t = 0 /\ jm.th[t].pc = "finished" /\ ~jm.threw
       \/ /\ jm.th[t].pc = "run"
          /\ Top(jm, t).k < Len(Children(jm.plan, Top(jm, t).job))
    /\ jm' = scoped_lock(jm, t, IF jm.th[t].pc = "finished" THEN "enq_late"
                                ELSE "enq")
    /\ UNCHANGED othersOfJobs

\* job::enqueue after the lock
Enqueue(t) ==
    /\ jm.state = "running" /\ jm.th[t].pc \in {"enq", "enq_late"}
    /\ \E woken \in notify_one(jm) :
        jm' = IF jm.th[t].stack = <<>>
              THEN enqueue(jm, t, 1, 0,
                           IF jm.th[t].pc = "enq_late" THEN "finished"
                           ELSE "main", woken)
              ELSE Do(Top(jm, t), LAMBDA f :
                    enqueue([jm EXCEPT !.th[t].stack[Len(jm.th[t].stack)].k = @ + 1], t,
                            Children(jm.plan, f.job)[f.k + 1], f.job,
                            "run", woken))
    /\ UNCHANGED othersOfJobs

\* a run() that calls done() without taking jobs_mutex
RunLock_unlocked(t) ==
    /\ Running(t, "run")
    /\ Top(jm, t).k = Len(Children(jm.plan, Top(jm, t).job))
    /\ jm' = [jm EXCEPT !.job[Top(jm, t).job].finished = TRUE,
                        !.th[t].pc = "done"]
    /\ UNCHANGED othersOfJobs

\* job::run: operator() returns and the thread takes the lock
RunLock(t) ==
    /\ Running(t, "run") /\ jm.jobs_mutex = {}
    /\ Top(jm, t).k = Len(Children(jm.plan, Top(jm, t).job))
    /\ jm' = scoped_lock([jm EXCEPT !.job[Top(jm, t).job].finished = TRUE],
                         t, "done")
    /\ UNCHANGED othersOfJobs

\* job::run: done() and the return
RunDone(t) ==
    /\ Running(t, "done")
    /\ jm' = leave_run(unlock([access(jm, t) EXCEPT
                                !.job = done(@, Top(jm, t).job)], t), t)
    /\ UNCHANGED othersOfJobs

\* job::join on job 1 by the main thread: the scoped_lock
JoinLock ==
    /\ Running(0, "main") /\ jm.jobs_mutex = {}
    /\ jm' = scoped_lock(jm, 0, "join_check")
    /\ UNCHANGED othersOfJobs

\* job::join: the test of m_dependencies and the wait on m_done
join_check(j, t, c) ==
    Do(access(j, t), LAMBDA a :
        IF a.job[c].m_dependencies # 0
        THEN [unlock(a, t) EXCEPT !.job[c].m_done = @ \cup {t},
                                  !.th[t].pc = "join_wait"]
        ELSE [unlock(a, t) EXCEPT !.th[t].pc = "joined"])

JoinCheck ==
    /\ Running(0, "join_check")
    /\ jm' = join_check(jm, 0, 1)
    /\ UNCHANGED othersOfJobs

\* the notified main thread returns from m_done.wait(lock) with the mutex
JoinWake ==
    /\ Running(0, "join_wait") /\ 0 \notin jm.job[1].m_done
    /\ jm.jobs_mutex = {}
    /\ jm' = scoped_lock(jm, 0, "join_check")
    /\ UNCHANGED othersOfJobs

\* shutdown_pool by the main thread: the scoped_lock
ShutdownLock ==
    /\ jm.state = "running" /\ jm.th[0].pc \in {"main", "joined"}
    /\ jm.jobs_mutex = {}
    /\ jm' = scoped_lock(jm, 0, "shut")
    /\ UNCHANGED othersOfJobs

\* shutdown_pool: the flag and the notify_all
Shutdown ==
    /\ Running(0, "shut")
    /\ jm' = [unlock(jm, 0) EXCEPT !.m_kill_job_pool = TRUE,
                                   !.m_has_data = {},
                                   !.th[0].pc = "thread_join"]
    /\ UNCHANGED othersOfJobs

\* shutdown_pool: the join of every worker thread
ShutdownJoin ==
    /\ Running(0, "thread_join")
    /\ \A w \in Workers : jm.th[w].pc = "exited"
    /\ jm' = [jm EXCEPT !.th[0].pc = "finished"]
    /\ UNCHANGED othersOfJobs

InitJobs ==
    /\ StreamIdle
    /\ SortIdle
    /\ rel = <<>> /\ gt = <<>> /\ gpc = "idle" /\ calls = <<>>
    /\ amem = <<>> /\ maps = <<>> /\ acc = <<>> /\ rdr = <<>>
    /\ \E ndbg \in BOOLEAN, plan \in JobPlans : jm = NewJobManager(ndbg, plan)

NextJobs ==
    \/ \E w \in Workers : WorkerLock(w)
    \/ \E w \in Workers : WorkerCheck(w)
    \/ \E w \in Workers : WorkerWake(w)
    \/ \E t \in Threads : SpuriousWake(t)
    \/ \E t \in Threads : EnqueueLock(t)
    \/ \E t \in Threads : Enqueue(t)
    \/ \E t \in Threads : RunLock(t)
    \/ \E t \in Threads : RunDone(t)
    \/ JoinLock
    \/ JoinCheck
    \/ JoinWake
    \/ ShutdownLock
    \/ Shutdown
    \/ ShutdownJoin

SpecJobs == InitJobs /\ [][NextJobs]_vars

\* the scheduler lets every thread run and a thread that keeps trying to
\* take jobs_mutex gets it; the main thread is free never to call join()
\* or shutdown_pool()
SpecJobsFair ==
    /\ SpecJobs
    /\ \A w \in Workers :
            SF_vars(WorkerLock(w)) /\ WF_vars(WorkerCheck(w))
                /\ SF_vars(WorkerWake(w))
    /\ \A t \in Threads :
            SF_vars(EnqueueLock(t)) /\ WF_vars(Enqueue(t))
                /\ SF_vars(RunLock(t)) /\ WF_vars(RunDone(t))
    /\ WF_vars(JoinCheck) /\ SF_vars(JoinWake)
    /\ WF_vars(Shutdown) /\ WF_vars(ShutdownJoin)

(***************************************************************************)
(* stream_accessor: the size in bytes of a stream of fixed-size items.     *)
(***************************************************************************)
\* the largest number of items of a stream, of items in a block, of
\* boundaries in a block and of boundaries the header takes
MaxItems == 10

MaxBlockItems == 4

MaxBlockBoundaries == 2

MaxHeaderBoundaries == 2

\* stream_accessor::boundary
boundary == 4096

\* sizeof(stream_header_t): eight fields of 8 bytes and the cleanClose flag,
\* padded to a multiple of 8
sizeof_stream_header == 72

\* an align_to_boundary that rounds down
align_to_boundary_down(z) == (z \div boundary) * boundary

\* stream_accessor::align_to_boundary
align_to_boundary(z) == ((z + boundary - 1) \div boundary) * boundary

\* stream_accessor::header_size
header_size(a) == align_to_boundary(sizeof_stream_header + a.m_maxUserDataSize)

\* stream_accessor::byte_size
byte_size(a) ==
    ((a.m_size + a.m_blockItems - 1) \div a.m_blockItems) * a.m_blockSize
        + header_size(a)

\* the stream_accessor objects of open streams: a block holds at least one
\* item and is a multiple of the boundary, the user data ends just before,
\* at or just after a boundary
Accessors ==
    [m_size : 0..MaxItems,
     m_blockItems : 1..MaxBlockItems,
     m_blockSize : {k * boundary : k \in 1..MaxBlockBoundaries},
     m_maxUserDataSize : {0} \cup
        {k * boundary - sizeof_stream_header + d :
            k \in 1..MaxHeaderBoundaries, d \in {-1, 0, 1}},
     called : {FALSE}, ret : {0}]

othersOfAccessor == <<streamVars, sortVars, phaseVars, jm, rdr>>

\* a call of byte_size()
ByteSize ==
    /\ ~acc.called
    /\ acc' = [acc EXCEPT !.called = TRUE, !.ret = byte_size(acc)]
    /\ UNCHANGED othersOfAccessor

InitAccessor ==
    /\ StreamIdle
    /\ SortIdle
    /\ rel = <<>> /\ gt = <<>> /\ gpc = "idle" /\ calls = <<>>
    /\ amem = <<>> /\ maps = <<>> /\ jm = <<>> /\ rdr = <<>>
    /\ acc \in Accessors

NextAccessor == ByteSize

SpecAccessor == InitAccessor /\ [][NextAccessor]_vars

(***************************************************************************)
(* serialization_reader: one reader object that is opened on the files     *)
(* 1..NumFiles one after the other.  The byte at offset o of file f is     *)
(* the pair <<f, o>>, so that m_block tells which block of which file it   *)
(* holds.                                                                  *)
(***************************************************************************)
\* number of files
NumFiles == 2
\* largest size of a file, in bytes after the header
MaxFileSize == 5
\* largest number of open() calls
MaxOpens == 3
\* largest block number given to read_from or reached by next_block
MaxReadFrom == 3

ReaderFiles == 1..NumFiles

\* serialization_reader::serialization_reader; sizes holds the sizes of the
\* files, path the file the reader is open on, fresh whether no block was
\* asked for since the last open(), and call the last call: its name, its
\* argument or the block it asked for, whether it threw end_of_stream and
\* whether it was the first to ask for a block since open()
NewReader(sizes) ==
    [m_open |-> FALSE, m_size |-> 0, m_index |-> 0, m_blockSize |-> 0,
     m_blockNumber |-> 0, m_block |-> <<>>,
     sizes |-> sizes, path |-> 0, opens |-> 0, fresh |-> FALSE,
     call |-> [name |-> "new", arg |-> 0, threw |-> FALSE, first |-> FALSE]]

\* serialization_reader_base::close
reader_close(r) ==
    IF ~r.m_open THEN r
    ELSE [r EXCEPT !.m_open = FALSE, !.m_block = <<>>, !.path = 0]

\* serialization_reader_base::open on a file with a valid header
reader_base_open(r, f) ==
    [reader_close(r) EXCEPT !.m_open = TRUE, !.path = f,
                            !.m_block = [i \in 1..BlockSize |-> <<0, 0>>],
                            !.m_size = r.sizes[f]]

\* serialization_reader::open
reader_open(r, f) == [reader_base_open(r, f) EXCEPT !.m_blockNumber = 0]

\* serialization_reader_base::read_block
reader_read_block(r, blk) ==
    Do(blk * BlockSize, LAMBDA from :
    Do(Min(from + BlockSize, r.m_size), LAMBDA to :
        IF to <= from THEN [r EXCEPT !.call.threw = TRUE]
        ELSE [r EXCEPT !.m_index = 0, !.m_blockSize = to - from,
                       !.m_block = [i \in 1..(to - from) |-> <<r.path, from + i - 1>>]
                                   \o SubSeq(r.m_block, to - from + 1, Len(r.m_block))]))

\* serialization_reader::next_block
reader_next_block(r) ==
    Do(IF r.m_blockSize = 0 THEN 0 ELSE r.m_blockNumber + 1, LAMBDA blk :
        reader_read_block([r EXCEPT !.m_blockNumber = blk,
                                    !.call = [name |-> "next_block", arg |-> blk,
                                                threw |-> FALSE,
                                                first |-> r.fresh]], blk))

\* serialization_reader::read_from
reader_read_from(r, blk) ==
    reader_read_block([r EXCEPT !.call = [name |-> "read_from", arg |-> blk,
                                          threw |-> FALSE, first |-> r.fresh]],
                      blk)

othersOfReader == <<streamVars, sortVars, phaseVars, jm, acc>>

\* open(path) on file f
RdOpen(f) ==
    /\ rdr.opens < MaxOpens
    /\ rdr' = [reader_open(rdr, f) EXCEPT !.opens = @ + 1, !.fresh = TRUE,
                                          !.call = [name |-> "open", arg |-> f,
                                                    threw |-> FALSE,
                                                    first |-> FALSE]]
    /\ UNCHANGED othersOfReader

\* next_block() on the open reader
RdNextBlock ==
    /\ rdr.m_open
    /\ rdr.m_blockNumber < MaxReadFrom
    /\ rdr' = [reader_next_block(rdr) EXCEPT !.fresh = FALSE]
    /\ UNCHANGED othersOfReader

\* read_from(blk) on the open reader
RdReadFrom(blk) ==
    /\ rdr.m_open
    /\ rdr' = [reader_read_from(rdr, blk) EXCEPT !.fresh = FALSE]
    /\ UNCHANGED othersOfReader

\* close()
RdClose ==
    /\ rdr.call.name # "close"
    /\ rdr' = [reader_close(rdr) EXCEPT !.fresh = FALSE,
                    !.call = [name |-> "close", arg |-> 0, threw |-> FALSE,
                              first |-> FALSE]]
    /\ UNCHANGED othersOfReader

InitReader ==
    /\ StreamIdle
    /\ SortIdle
    /\ rel = <<>> /\ gt = <<>> /\ gpc = "idle" /\ calls = <<>>
    /\ amem = <<>> /\ maps = <<>> /\ jm = <<>> /\ acc = <<>>
    /\ rdr \in {NewReader(sizes) : sizes \in [ReaderFiles -> 0..MaxFileSize]}

NextReader ==
    \/ \E f \in ReaderFiles : RdOpen(f)
    \/ RdNextBlock
    \/ \E blk \in 0..MaxReadFrom : RdReadFrom(blk)
    \/ RdClose

SpecReader == InitReader /\ [][NextReader]_vars

(***************************************************************************)
(* Properties of the serialization stream.                                 *)
(***************************************************************************)
IsPrefix(a, b) == Len(a) <= Len(b) /\ a = SubSeq(b, 1, Len(a))

\* C1: bytes written to a freshly opened stream (access_write or
\* access_read_write), of any length, are what the stream holds after close()
\* and reopening for reading: the reopening succeeds, size() is the number of
\* bytes written, and the sequential reads succeed and return the written
\* bytes in order.
C1_RoundTrip ==
    phase = "reading" =>
        /\ res = "ok"
        /\ size_of(ss) = Len(wlog)
        /\ IsPrefix(rlog, wlog)

\* a round trip over more than two blocks, read back to the last byte
C1_Witness ==
    /\ phase = "reading"
    /\ Len(wlog) > 2 * BlockSize
    /\ rlog = wlog
    /\ op.name = "read"

ValidHeader(h) == h.magic = magicConst /\ h.version = versionConst

\* C5 (as claimed): open() of an existing, otherwise valid file that was not
\* closed cleanly, with requireCleanClose = true, fails with the unclean-close
\* error for access_read and for access_read_write.
C5_UncleanRejected ==
    [][(/\ op'.name = "open" /\ op'.rcc
        /\ op'.access \in {"access_read", "access_read_write"}
        /\ ~ss.m_open
        /\ file.hasHeader /\ ValidHeader(file.hdr) /\ file.hdr.cleanClose # 1)
       => res' = "unclean"]_vars

\* C6 (as claimed): read(s, n) with fewer than n bytes between the cursor and
\* size() raises end_of_stream, and no read returns more bytes than lie
\* between the cursor and size().
C6_ReadPastEnd ==
    [][(op'.name = "read" /\ ss.m_canRead)
       => /\ (offset(ss) + op'.n > size_of(ss) => res' = "end_of_stream")
          /\ offset(ss) + Len(out') <= Max(size_of(ss), offset(ss))]_vars

\* the write_i call that stores the block b resident before a step: at b's
\* offset, all of b's bytes, those below the cursor as they were (a write()
\* of the same step may have stored bytes from the cursor on)
Flushed(s, log) ==
    \E k \in 1..Len(log) :
        /\ log[k].kind = "block"
        /\ log[k].pos = s.block.offset
        /\ Len(log[k].bytes) >= s.block.size
        /\ \A i \in 1..Min(s.m_index, s.block.size) :
                log[k].bytes[i] = s.block.data[i]
        /\ op'.name # "write" =>
                log[k].bytes = SubSeq(s.block.data, 1, s.block.size)

\* the dirty block resident before a step is no longer resident, or no longer
\* dirty, after it
BlockGone ==
    \/ ~ss'.m_open
    \/ ss'.block.offset # ss.block.offset
    \/ ~ss'.block.dirty
    \/ op'.name \in {"open", "destroy"}

\* C7: after any operation of the stream (read, write, close, open, the
\* destructor) that leaves a block which was resident and dirty before it no
\* longer resident or no longer dirty, the operation has called write_i for
\* that block at the block's own offset, with all of its bytes.
C7_DirtyBlockWritten ==
    [][(/\ ss.m_open /\ ss.block.dirty
        /\ op'.name \in {"read", "write", "close", "open", "destroy"}
        /\ res' # "abort"
        /\ BlockGone)
       => Flushed(ss, iolog')]_vars

\* a dirty block of the second block of the file was flushed by update_block
\* or close
C7_Witness ==
    /\ res = "ok"
    /\ op.name \in {"read", "write", "close"}
    /\ \E k \in 1..Len(iolog) :
        /\ iolog[k].kind = "block" /\ iolog[k].done
        /\ iolog[k].pos = BlockSize /\ Len(iolog[k].bytes) > 0

HeaderErrors == {"bad_magic", "version_old", "version_new"}

\* C9 (as claimed): open() of an existing file whose header has a wrong
\* magic or a wrong version fails with a header error and leaves every byte
\* of the file as it was, whatever the access type.
C9_BadHeaderRejected ==
    [][(/\ op'.name = "open"
        /\ file.exists /\ file.hasHeader /\ ~ValidHeader(file.hdr))
       => (res' \in HeaderErrors /\ file' = file)]_vars

\* C9 (amended): open() with access_read or access_read_write of an existing
\* file whose header has a wrong magic or a wrong version fails with a header
\* error and leaves every byte of the file as it was.
C9_BadHeaderRejectedReading ==
    [][(/\ op'.name = "open"
        /\ op'.access \in {"access_read", "access_read_write"}
        /\ file.exists /\ file.hasHeader /\ ~ValidHeader(file.hdr))
       => (res' \in HeaderErrors /\ file' = file)]_vars

\* an open for reading and writing was refused for its version, on a file
\* that holds data
C9_Witness ==
    /\ op.name = "open" /\ op.access = "access_read_write"
    /\ res \in {"version_old", "version_new"}
    /\ file.hdr.magic = magicConst
    /\ Len(file.data) > 0

\* C10 (as claimed): on an open stream, read() without read access and
\* write() without write access fail and transfer nothing: no byte is handed
\* to the caller, and the block, the cursor, the size and the file stay as
\* they were.
C10_AccessEnforced ==
    [][/\ (op'.name = "read" /\ ss.m_open /\ ~ss.m_canRead)
            => (res' # "ok" /\ out' = <<>>)
       /\ (op'.name = "write" /\ ss.m_open /\ ~ss.m_canWrite)
            => (res' # "ok" /\ file' = file
                /\ (res' # "abort" => ss' = ss))]_vars

\* the last write_i call of a log stores a header with cleanClose = 1 and
\* the given size, and every call before it stores a block
SealsLast(log, size) ==
    /\ Len(log) >= 1
    /\ log[Len(log)].kind = "header" /\ log[Len(log)].done
    /\ log[Len(log)].cleanClose = 1
    /\ log[Len(log)].size = size
    /\ \A k \in 1..(Len(log) - 1) : log[k].kind = "block" /\ log[k].done

\* C8: while the file is open for writing through a serialization_stream or
\* a serialization_writer its header on disk has cleanClose = 0; a close()
\* that returns first writes the buffered data and then, as its last write,
\* the header with cleanClose = 1 and size = the current size; a header on
\* disk with cleanClose = 1 never announces more bytes than the file holds.
C8_Sealing ==
    /\ [](/\ (ss.m_open /\ ss.m_canWrite) =>
                (file.hasHeader /\ file.hdr.cleanClose = 0)
          /\ wr.m_open => (file.hasHeader /\ file.hdr.cleanClose = 0)
          /\ (file.hasHeader /\ file.hdr.cleanClose = 1) =>
                Len(file.data) >= file.hdr.size)
    /\ [][(/\ op'.name \in {"close", "destroy"}
           /\ ss.m_open /\ ss.m_canWrite /\ res' = "ok")
          => /\ SealsLast(iolog', size_of(ss))
             /\ ss.block.dirty => Flushed(ss, iolog')
             /\ file'.hdr.cleanClose = 1 /\ file'.hdr.size = size_of(ss)]_vars
    /\ [][(op'.name = "wclose" /\ wr.m_open /\ res' = "ok")
          => /\ SealsLast(iolog', Len(wlog))
             /\ wr.m_index > 0 =>
                    /\ Len(iolog') = 2
                    /\ iolog'[1].pos = wr.m_blocksWritten * BlockSize
                    /\ iolog'[1].bytes = SubSeq(wr.m_block, 1, wr.m_index)
             /\ file'.hdr.cleanClose = 1 /\ file'.hdr.size = Len(wlog)
             /\ file'.data = wlog]_vars

\* a stream of more than one block was closed with its last block dirty
C8_Witness ==
    /\ op.name = "close" /\ res = "ok"
    /\ Len(iolog) = 2 /\ iolog[1].kind = "block" /\ iolog[1].pos = BlockSize
    /\ file.hdr.cleanClose = 1 /\ file.hdr.size > BlockSize

\* C11: on an open stream can_read() is true exactly when the cursor offset
\* is less than size().
C11_CanReadIffBeforeEnd ==
    ss.m_open => (can_read(ss) <=> offset(ss) < size_of(ss))

\* C12: a write() or read() on an open stream never decreases size(): a
\* write that returns sets it to the larger of the old size and the end
\* offset of the write, and a read leaves it unchanged.
C12_SizeMonotone ==
    [][(ss.m_open /\ op'.name \in {"read", "write"} /\ res' # "abort") =>
            /\ size_of(ss') >= size_of(ss)
            /\ op'.name = "read" => size_of(ss') = size_of(ss)
            /\ (op'.name = "write" /\ res' = "ok") =>
                    size_of(ss') = Max(size_of(ss), offset(ss) + op'.n)]_vars

(***************************************************************************)
(* Properties of the sorter.                                               *)
(***************************************************************************)
Count(s, k) == Cardinality({i \in DOMAIN s : s[i] = k})

\* C2: the items returned by the successive pull() calls after end() are
\* nondecreasing under the comparator and are items of the pushed sequence,
\* none more often than it was pushed; once as many items are pulled as were
\* pushed they are a permutation of the pushed sequence; and when neither
\* begin(), push() nor end() threw, a pull() fails only after all of them
\* were returned.
C2_SortedPermutation ==
    /\ \A i \in 1..(Len(pulled) - 1) : ~(pulled[i + 1] < pulled[i])
    /\ \A k \in Items : Count(pulled, k) <= Count(pushed, k)
    /\ Len(pulled) = Len(pushed) =>
            \A k \in Items : Count(pulled, k) = Count(pushed, k)
    /\ sres \in {"end_of_stream", "io_error"} => Len(pulled) = Len(pushed)

\* all the items of an input of five runs, merged in three passes, were pulled
C2_Witness ==
    /\ srt.pc = "ended"
    /\ Len(pushed) >= 5 /\ Len(pulled) = Len(pushed)
    /\ srt.m_sortedRunsOffset >= 10
    /\ pushed # pulled


\* C13: once a push() of the internal sorter returned false, every later
\* push() returns false and stores no item, until reset() or begin().
C13_FullStaysFull ==
    [][(sres' = "push" /\ \E i \in 1..Len(rets) : ~rets[i]) =>
            /\ ~rets'[Len(rets')]
            /\ srt'.m_items = srt.m_items
            /\ srt'.m_indexes = srt.m_indexes]_vars

\* the first item was too large for the buffer, and the next push, of an
\* item that fits in the empty buffer, was refused as well
C13_Witness ==
    /\ sres = "push" /\ rets = <<FALSE, FALSE>>
    /\ srt.m_bufferSize > 0
    /\ ItemBytes(pushed[2]) <= srt.m_bufferSize
    /\ srt.m_items = 0

\* C14: the write index of the internal sorter never exceeds the buffer
\* size and the number of stored items never exceeds the size of the pointer
\* array; a push changes the index only by the bytes of write() calls that
\* fitted, and a push that stores an item when the array is full doubles the
\* array and keeps the stored pointers.
C14_WithinBuffer ==
    /\ [](/\ srt.m_index <= srt.m_bufferSize
          /\ srt.m_items <= srt.m_indexesSize
          /\ Len(srt.m_indexes) = srt.m_items)
    /\ [][sres' = "push" =>
            /\ srt'.m_index <= srt.m_bufferSize
            /\ srt'.m_items = srt.m_items + 1 =>
                    /\ srt'.m_index =
                            (IF srt.m_items = 0 THEN 0 ELSE srt.m_index)
                                + ItemBytes(pushed'[Len(pushed')])
                    /\ srt'.m_indexes = Append(srt.m_indexes, pushed'[Len(pushed')])
                    /\ (srt.m_items = srt.m_indexesSize /\ srt.m_items > 0) =>
                            srt'.m_indexesSize = 2 * srt.m_indexesSize]_vars

\* the pointer array of one expected item was doubled twice and holds three
\* items that fill the buffer
C14_Witness ==
    /\ sres = "push" /\ srt.m_items = 3 /\ srt.m_indexesSize = 4
    /\ srt.m_expectedItems = 1
    /\ srt.m_index = srt.m_bufferSize

\* the largest serialized size of the items pushed
RECURSIVE LargestItem(_)
LargestItem(s) ==
    IF s = <<>> THEN 0 ELSE Max(ItemBytes(Head(s)), LargestItem(Tail(s)))

\* the fanout of the merge for the items pushed
Fanout(s) ==
    (s.m_memAvail - writer_memory_usage)
        \div (LargestItem(pushed) + reader_memory_usage)

\* a step of end() up to its merge loop
EndStep ==
    srt.pc = "pushing" /\ srt'.pc \notin {"pushing", "destroyed"} /\ pushed' = pushed

\* C15: when items were pushed, end() fails and merges nothing if
\* floor((memAvail - writer usage) / (L + reader usage)) is less than 2, L
\* being the largest serialized size of the items accepted since begin(),
\* and otherwise merges with this fanout.
C15_Fanout ==
    [][(EndStep /\ LargestItem(pushed) > 0) =>
            IF Fanout(srt) < 2
            THEN /\ sres' = "no_memory_merge"
                 /\ srt'.m_sortedRunsOffset = 0
                 /\ DOMAIN runs' = 0..(srt'.m_sortedRunsCount - 1)
                 /\ \A k \in DOMAIN runs : runs'[k] = runs[k]
            ELSE sres' = "ok" /\ srt'.fanout = Fanout(srt)]_vars

\* end() failed on three runs of items of two bytes, which with a fanout
\* of two would have been merged
C15_Witness ==
    /\ sres = "no_memory_merge" /\ srt.m_sortedRunsCount >= 3
    /\ LargestItem(pushed) = 2
    /\ srt.m_memAvail - writer_memory_usage >= 2 * LargestItem(pushed)

\* the total length of the run files at the absolute indices from..(to - 1)
RECURSIVE RunLengths(_, _, _)
RunLengths(files, from, to) ==
    IF from >= to THEN 0 ELSE Len(files[from]) + RunLengths(files, from + 1, to)

\* C16: with R >= 1 initial runs and fanout f >= 2, every merge_runs call of
\* end() replaces a group of at most f consecutive runs by one run, every
\* pass replaces r runs by ceil(r / f) runs, and end() finishes after
\* ceil(log_f(R)) passes with exactly one run, readable as run 0.
C16_MergePasses ==
    /\ []((srt.pc = "ended" /\ srt.initialRuns >= 1) =>
            /\ srt.fanout >= 2
            /\ srt.fanout ^ srt.passes >= srt.initialRuns
            /\ srt.passes > 0 => srt.fanout ^ (srt.passes - 1) < srt.initialRuns
            /\ srt.m_sortedRunsCount = 1
            /\ DOMAIN runs = {sorted_run_path(srt, 0)})
    /\ [][srt.pc = "merging" =>
            LET till == Min(srt.m_sortedRunsCount, srt.i + srt.fanout)
                dst  == sorted_run_path(srt, srt.m_sortedRunsCount + srt.newCount)
            IN  /\ sres' = "ok"
                /\ dst \in DOMAIN runs'
                /\ Len(runs'[dst]) =
                        RunLengths(runs, sorted_run_path(srt, srt.i),
                                   sorted_run_path(srt, till))
                /\ \A p \in srt.i..(till - 1) :
                        sorted_run_path(srt, p) \notin DOMAIN runs'
                /\ srt'.passes = srt.passes + 1 =>
                        /\ till = srt.m_sortedRunsCount
                        /\ srt'.m_sortedRunsCount =
                                (srt.m_sortedRunsCount + srt.fanout - 1)
                                    \div srt.fanout
                /\ srt'.passes = srt.passes => till = srt.i + srt.fanout]_vars

\* five runs were merged with fanout two in three passes
C16_Witness ==
    /\ srt.pc = "ended" /\ srt.initialRuns = 5 /\ srt.fanout = 2
    /\ srt.passes = 3

\* C17: while and after end() merges, the sorter never had more than
\* fanout + 1 run files open at once: the readers of one merge group and
\* its writer.
C17_OpenFiles ==
    (srt.pc \in {"merging", "ended"} /\ srt.initialRuns >= 1) =>
        srt.peakOpen <= srt.fanout + 1

\* a group of three runs was merged with fanout three: four files were open
C17_Witness ==
    /\ srt.pc = "ended" /\ srt.fanout = 3 /\ srt.initialRuns = 3
    /\ srt.peakOpen = 4

\* C18: every run file that exists has an absolute index between
\* m_firstFileUsed and m_lastFileUsed, the runs a merge_runs call has merged
\* no longer exist when it returns, and no run file exists after the
\* sorter's destructor.
C18_RunFilesDeleted ==
    /\ [](srt.pc # "destroyed" =>
            \A k \in DOMAIN runs :
                srt.m_firstFileUsed <= k /\ k <= srt.m_lastFileUsed)
    /\ [](srt.pc = "destroyed" => DOMAIN runs = {})
    /\ [][(srt.pc = "merging" /\ sres' = "ok") =>
            \A p \in srt.i..(Min(srt.m_sortedRunsCount, srt.i + srt.fanout) - 1) :
                sorted_run_path(srt, p) \notin DOMAIN runs']_vars

\* the destructor removed the run that three merge passes left at index 10
C18_Witness ==
    /\ srt.pc = "destroyed" /\ srt.passes = 3
    /\ srt.m_firstFileUsed = 10 /\ srt.m_lastFileUsed = 10
    /\ Len(pulled) > 0

(***************************************************************************)
(* Properties of the pipelining graph.                                     *)
(***************************************************************************)
\* the positions in the execution order of the phases that hold node n
PhasesOf(n) ==
    {i \in 1..Len(gt.m_phases) : n \in Range(gt.m_phases[i].m_segments)}

\* the nodes of other phases on which a node of the given set depends
RECURSIVE Dependees(_, _)
Dependees(r, set) ==
    Do(set \cup {n \in Nodes : \E k \in 1..Len(r), m \in set :
                    /\ r[k][3] = "depends"
                    /\ r[k][1] \in SetOf(r, m)
                    /\ SetOf(r, r[k][2]) # SetOf(r, m)
                    /\ n \in SetOf(r, r[k][2])},
       LAMBDA next : IF next = set THEN set ELSE Dependees(r, next))

DirectDependees(r, n) ==
    {m \in Nodes : \E k \in 1..Len(r) :
        /\ r[k][3] = "depends"
        /\ r[k][1] \in SetOf(r, n)
        /\ SetOf(r, r[k][2]) # SetOf(r, n)
        /\ m \in SetOf(r, r[k][2])}

\* no phase depends, directly or through other phases, on itself
AcyclicPhases(r) ==
    \A n \in Nodes :
        DirectDependees(r, n) = {} \/ n \notin Dependees(r, DirectDependees(r, n))

\* C3: when the phase graph is acyclic, for every depends relation between
\* nodes of two different phases the phase of the node depended on is placed
\* before the phase of the depending node in the execution order that
\* calc_phases produces.
C3_DependeeFirst ==
    (gpc.stage = "ready" /\ AcyclicPhases(rel)) =>
        \A k \in 1..Len(rel) : rel[k][3] = "depends" =>
            \A p \in PhasesOf(rel[k][1]), q \in PhasesOf(rel[k][2]) :
                p # q => q < p

\* three phases in a chain of two depends relations, each phase depending on
\* a node of higher id, were ordered
C3_Witness ==
    /\ gpc.stage = "ready" /\ AcyclicPhases(rel)
    /\ Len(gt.m_phases) = 3
    /\ \A n \in Nodes : Cardinality(PhasesOf(n)) = 1
    /\ Len(rel) = 2
    /\ \A k \in 1..2 : rel[k][3] = "depends" /\ rel[k][1] < rel[k][2]
    /\ rel[1][2] = rel[2][1]

\* C4: whenever go_all calls begin() on a node, end() was called before on
\* every node of every earlier phase, and the nodes that are between their
\* begin() and their end() all belong to one phase.
C4_PhasesInSequence ==
    gpc.stage # "new" =>
        /\ \A b \in 1..Len(calls) : calls[b][1] = "begin" =>
                \A m \in Nodes :
                    (\E p \in PhasesOf(calls[b][2]), q \in PhasesOf(m) : q < p) =>
                        \E e \in 1..(b - 1) : calls[e] = <<"end", m>>
        /\ \A n, m \in {calls[b][2] : b \in {c \in 1..Len(calls) : calls[c][1] = "begin"}}
                     \ {calls[e][2] : e \in {c \in 1..Len(calls) : calls[c][1] = "end"}} :
                PhasesOf(n) = PhasesOf(m)

\* go_all ran a phase of two nodes and then a later phase
C4_Witness ==
    /\ gpc.stage = "done"
    /\ Len(gt.m_phases) >= 2
    /\ Len(gt.m_phases[1].m_segments) >= 2
    /\ \E b \in 1..Len(calls) :
            calls[b][1] = "begin" /\ PhasesOf(calls[b][2]) = {2}


\* C19: calc_phases puts every node in exactly one phase, and two nodes in
\* the same phase exactly when a path of pushes and pulls relations, taken
\* in either direction, connects them.
C19_PhaseDiscovery ==
    gpc.stage = "ready" =>
        /\ \A n \in Nodes : Cardinality(PhasesOf(n)) = 1
        /\ \A i \in 1..Len(gt.m_phases) :
                Len(gt.m_phases[i].m_segments)
                    = Cardinality(Range(gt.m_phases[i].m_segments))
        /\ \A n, m \in Nodes :
                (PhasesOf(n) = PhasesOf(m)) <=> (m \in SetOf(rel, n))

\* two nodes joined through a third by a pushes and a pulls relation share
\* a phase
C19_Witness ==
    /\ gpc.stage = "ready" /\ Len(gt.m_phases) = 1
    /\ Len(rel) = 2 /\ rel[1][3] = "pushes" /\ rel[2][3] = "pulls"
    /\ Cardinality({rel[1][1], rel[1][2], rel[2][1], rel[2][2]}) = 3
    /\ Len(gt.m_phases[1].m_segments) = 3


\* the nodes of phase i that no pushes or pulls relation ends in
Initiators(i) ==
    {n \in Range(gt.m_phases[i].m_segments) :
        \A k \in 1..Len(rel) : rel[k][3] # "depends" => rel[k][2] # n}

\* C20: a phase on whose nodes begin() is called has exactly one initiator;
\* a phase with none or with several is rejected before any of its nodes
\* is run.
C20_OneInitiator ==
    \A b \in 1..Len(calls) : calls[b][1] = "begin" =>
        \A p \in PhasesOf(calls[b][2]) : Cardinality(Initiators(p)) = 1


\* a depends relation joins two nodes of one phase, or the depends relations
\* lead from a phase back to itself through other phases
CyclicDepends(r) ==
    \/ ~AcyclicPhases(r)
    \/ \E k \in 1..Len(r) : r[k][3] = "depends" /\ r[k][2] \in SetOf(r, r[k][1])

\* C21: graph_traits produces no execution order when the depends relations
\* between the phases form a cycle, a depends relation between two nodes of
\* one phase included: its construction fails.
C21_CycleRejected ==
    gpc.stage # "new" => ~CyclicDepends(rel)


\* the position in calls of the first call of the given kind on node n, 0
\* when there is none
CallPos(kind, n) ==
    IF \E b \in 1..Len(calls) : calls[b] = <<kind, n>>
    THEN CHOOSE b \in 1..Len(calls) :
            /\ calls[b] = <<kind, n>>
            /\ \A c \in 1..(b - 1) : calls[c] # <<kind, n>>
    ELSE 0

\* the number of calls of the given kind on node n
CallCount(kind, n) ==
    Cardinality({b \in 1..Len(calls) : calls[b] = <<kind, n>>})

\* the nodes that the successor edges of a phase lead to from the given set
RECURSIVE Successors(_, _)
Successors(edges, set) ==
    Do(set \cup {m \in DOMAIN edges : \E n \in set : m \in Range(edges[n])},
       LAMBDA next : IF next = set THEN set ELSE Successors(edges, next))

\* the successor edges of phase i form no cycle and the phase has one
\* initiator
WellFormed(i) ==
    /\ Cardinality(Initiators(i)) = 1
    /\ \A n \in DOMAIN gt.m_phases[i].edges :
            n \notin Successors(gt.m_phases[i].edges,
                                Range(gt.m_phases[i].edges[n]))

\* C22: when phase::go has left its first loop, begin() was called exactly
\* once on every node of the phase, a node before its successors in the
\* phase graph, and first of all on the phase's initiator.
C22_BeginOrder ==
    (gpc.stage = "go" /\ WellFormed(gpc.i)) =>
        /\ \A n \in Range(gt.m_phases[gpc.i].m_segments) :
                CallCount("begin", n) = 1
        /\ \A n \in DOMAIN gt.m_phases[gpc.i].edges :
                \A m \in Range(gt.m_phases[gpc.i].edges[n]) :
                    CallPos("begin", n) < CallPos("begin", m)
        /\ \A n \in Range(gt.m_phases[gpc.i].m_segments) :
                CallPos("begin", gt.m_phases[gpc.i].m_initiator)
                    <= CallPos("begin", n)


\* the nodes of phase p on which the calls of the given kind were made, in
\* the order of the calls
CalledOn(kind, p) ==
    Do(SelectSeq(calls, LAMBDA c :
            c[1] = kind /\ c[2] \in Range(gt.m_phases[p].m_segments)),
       LAMBDA sel : [k \in 1..Len(sel) |-> sel[k][2]])

Reverse(s) == [k \in 1..Len(s) |-> s[Len(s) + 1 - k]]

\* the end() calls of phase p come after the begin() calls of all its nodes
\* and after the go() call of its initiator
EndsAfterGo(p) ==
    CalledOn("end", p) # <<>> =>
        /\ Len(CalledOn("begin", p)) = Len(gt.m_phases[p].m_segments)
        /\ gt.m_phases[p].m_initiator # NoNode =>
                \A e \in 1..Len(calls) :
                    (calls[e][1] = "end" /\ p \in PhasesOf(calls[e][2])) =>
                        \E g \in 1..(e - 1) : calls[g] = <<"go", p>>

\* C23 (as claimed): after the initiator's go() returns, end() is called on
\* the phase's nodes in the reverse of the order in which begin() was called
\* on them.
C23_EndReversed ==
    gpc.stage # "new" => \A p \in 1..Len(gt.m_phases) :
        /\ EndsAfterGo(p)
        /\ IsPrefix(CalledOn("end", p), Reverse(CalledOn("begin", p)))

\* C23 (amended): after the initiator's go() returns, end() is called on the
\* phase's nodes, each once, in the same order in which begin() was called
\* on them.
C23_EndInBeginOrder ==
    gpc.stage # "new" => \A p \in 1..Len(gt.m_phases) :
        /\ EndsAfterGo(p)
        /\ IsPrefix(CalledOn("end", p), CalledOn("begin", p))
        /\ (gpc.stage = "done" \/ gpc.i > p) =>
                CalledOn("end", p) = CalledOn("begin", p)

\* go_all ran a phase of three nodes, of which the node of lowest id was
\* neither the first nor the last to begin and to end
C23_Witness ==
    /\ gpc.stage = "done" /\ Len(gt.m_phases) = 1
    /\ Len(CalledOn("end", 1)) = 3
    /\ CalledOn("end", 1)[2] = 0
    /\ \E g \in 1..Len(calls) : calls[g] = <<"go", 1>>


\* C24: in a phase with one initiator whose graph has no cycle, when end()
\* is called on a node that another node pushes to or pulls from, end() was
\* called on that other node before.
C24_EndBeforeDestinations ==
    gpc.stage # "new" =>
        \A k \in 1..Len(rel) :
            (/\ rel[k][3] # "depends"
             /\ \A p \in PhasesOf(rel[k][1]) : WellFormed(p)
             /\ CallPos("end", rel[k][2]) > 0)
            => /\ CallPos("end", rel[k][1]) > 0
               /\ CallPos("end", rel[k][1]) < CallPos("end", rel[k][2])


\* the nodes that items flow to from the nodes of the given set: the
\* destination of a pushes relation and the puller of a pulls relation
RECURSIVE FlowsTo(_, _)
FlowsTo(r, set) ==
    Do(set \cup {r[k][2] : k \in {j \in 1..Len(r) :
                        r[j][3] = "pushes" /\ r[j][1] \in set}}
           \cup {r[k][1] : k \in {j \in 1..Len(r) :
                        r[j][3] = "pulls" /\ r[j][2] \in set}},
       LAMBDA next : IF next = set THEN set ELSE FlowsTo(r, next))

\* the nodes reachable from n along push and pull edges, in the direction
\* of the items
ReachableFrom(r, n) ==
    FlowsTo(r, {r[k][2] : k \in {j \in 1..Len(r) :
                        r[j][3] = "pushes" /\ r[j][1] = n}}
          \cup {r[k][1] : k \in {j \in 1..Len(r) :
                        r[j][3] = "pulls" /\ r[j][2] = n}})

RECURSIVE MinSum(_)
MinSum(segs) == IF segs = <<>> THEN 0 ELSE Head(segs).min + MinSum(Tail(segs))

RECURSIVE FracSum(_)
FracSum(segs) == IF segs = <<>> THEN 0 ELSE Head(segs).frac + FracSum(Tail(segs))

\* the amounts of the set_available_memory calls
RECURSIVE AmountSum(_)
AmountSum(set) == IF set = <<>> THEN 0 ELSE Head(set)[2] + AmountSum(Tail(set))

\* every node of the phase had set_available_memory called once
EachOnce(ph) ==
    /\ Len(ph.set) = Len(ph.m_segments)
    /\ \A i \in DOMAIN ph.m_segments : \E j \in DOMAIN ph.set : ph.set[j][1] = i

\* the calls of set follow the rule for the budget R and the fraction sum F:
\* a node whose share R * f / F is below its minimum receives its minimum,
\* which leaves R - min and F - f to the calls after it, and any other node
\* receives the whole part of its share, not below its minimum
RECURSIVE Proportional(_, _, _, _)
Proportional(segs, set, R, F) ==
    IF set = <<>> THEN TRUE
    ELSE Do(segs[Head(set)[1]], LAMBDA s :
            IF F <= 0 \/ s.frac * R < s.min * F
            THEN /\ Head(set)[2] = s.min
                 /\ R >= s.min
                 /\ Proportional(segs, Tail(set), R - s.min, F - s.frac)
            ELSE /\ Head(set)[2] = (s.frac * R) \div F
                 /\ Head(set)[2] >= s.min
                 /\ Proportional(segs, Tail(set), R, F))

\* C25: after assign_memory(m) with m at least the sum of the nodes' minimum
\* memory every node has received at least its minimum: its minimum when
\* its share of the budget left, by its fraction of the fractions left, is
\* below the minimum, and otherwise that share.
C25_AtLeastMinimum ==
    (amem # <<>> /\ amem.pc = "assigned"
        /\ amem.m >= MinSum(amem.m_segments)) =>
        /\ EachOnce(amem)
        /\ \A j \in DOMAIN amem.set :
                amem.set[j][2] >= amem.m_segments[amem.set[j][1]].min
        /\ Proportional(amem.m_segments, amem.set, amem.m,
                        FracSum(amem.m_segments))

\* C26: after assign_memory(m) with m at least the minimum memory of the
\* phase, as the phase summed it and as the nodes report it after prepare(),
\* the amounts passed to set_available_memory sum to at most m and the
\* budget left was never taken below zero.
C26_WithinBudget ==
    (amem # <<>> /\ amem.pc = "assigned"
        /\ amem.m >= amem.m_minimumMemory
        /\ amem.m >= MinSum(amem.m_segments)) =>
        /\ AmountSum(amem.set) <= amem.m
        /\ ~amem.underflow

\* C27: assign_memory(m) with m smaller than minimum_memory() of the phase
\* returns after it has called prepare() once on every node and then
\* set_available_memory once on every node, with the minimum memory the
\* node reports after prepare().
C27_MinimumWhenShort ==
    (amem # <<>> /\ amem.pc = "assigned" /\ amem.m < amem.m_minimumMemory) =>
        /\ Len(amem.prepared) = Len(amem.m_segments)
        /\ Range(amem.prepared) = DOMAIN amem.m_segments
        /\ EachOnce(amem)
        /\ \A j \in DOMAIN amem.set :
                amem.set[j][2] = amem.m_segments[amem.set[j][1]].min

\* a phase of three nodes was short of memory after one of its nodes had
\* lowered its minimum in prepare()
C27_Witness ==
    /\ amem # <<>> /\ amem.pc = "assigned"
    /\ amem.m >= 1 /\ amem.m < amem.m_minimumMemory
    /\ Len(amem.m_segments) = 3 /\ Len(amem.set) = 3
    /\ MinSum(amem.m_segments) < amem.m_minimumMemory
    /\ \E j \in 1..3 : amem.set[j][2] > 0

(***************************************************************************)
(* Properties of the pull loop of the sorter.                              *)
(***************************************************************************)
\* C30: after end(), can_pull() is true exactly when an item that was pushed
\* has not been pulled yet, a pull() made when can_pull() is true returns an
\* item, and when can_pull() is false every pushed item was returned once:
\* the loop while (can_pull()) pull() ends, also on the empty input.
C30_PullLoop ==
    srt.pc = "ended" =>
        /\ can_pull(SortCur) <=> Len(pulled) < Len(pushed)
        /\ can_pull(SortCur) => sort_pull(SortCur).res = "ok"
        /\ ~can_pull(SortCur) =>
                \A k \in Items : Count(pulled, k) = Count(pushed, k)

(***************************************************************************)
(* Properties of the token maps.                                           *)
(***************************************************************************)
\* C28: after any sequence of union_set and map_union calls,
\* find_authority() returns the same map from any two maps that the calls
\* have united, directly or through other maps, and this map holds every
\* token id that was registered in a map united with it.
C28_SameAuthority ==
    maps # <<>> =>
        \A a, b \in MapAddrs : maps.united[a] = maps.united[b] =>
            /\ find_authority(maps.objs, a)[2] = find_authority(maps.objs, b)[2]
            /\ maps.registered[b]
                \subseteq TokenIds(maps.objs[find_authority(maps.objs, a)[2]].m_tokens)

\* the three maps were united, one of them through a token that points to a
\* map that is no longer an authority, and a copied token has registered
\* its id in such a map
C28_Witness ==
    /\ maps # <<>>
    /\ \A a \in MapAddrs : maps.united[a] = 1
    /\ \E a \in MapAddrs :
            /\ maps.objs[a].m_authority # 0 /\ maps.objs[a].m_tokens # {}
            /\ \E t \in MapAddrs : maps.toks[t].m_tokens = a
    /\ \E a \in MapAddrs :
            Cardinality(TokenIds(maps.objs[a].m_tokens)) = 3

(***************************************************************************)
(* Properties of the job pool.                                             *)
(***************************************************************************)
\* C31: when join() on job 1 has returned, operator() of job 1 and of every
\* job enqueued below it, directly or through other jobs, has completed.
C31_JoinAfterCompletion ==
    (jm # <<>> /\ jm.th[0].pc = "joined") =>
        /\ jm.job[1].finished
        /\ \A c \in Jobs : jm.job[c].enqueued => jm.job[c].finished

\* C39: operator() of a job is entered at most once, a job still in the
\* queue was not run and is in the queue once, no job is run by two threads,
\* and no thread has touched the queue or a dependency counter without
\* holding jobs_mutex.
C39_AtMostOnce ==
    jm # <<>> =>
        /\ \A c \in Jobs : jm.job[c].runs <= 1
        /\ \A k \in 1..Len(jm.m_jobs) :
                /\ jm.job[jm.m_jobs[k]].runs = 0
                /\ \A l \in 1..Len(jm.m_jobs) : jm.m_jobs[l] = jm.m_jobs[k] => l = k
        /\ \A t, u \in Threads : \A a \in 1..Len(jm.th[t].stack) :
                \A b \in 1..Len(jm.th[u].stack) :
                    jm.th[t].stack[a].job = jm.th[u].stack[b].job
                        => t = u /\ a = b
        /\ ~jm.race

\* two workers run a job each, one of them a job it enqueued itself when
\* the queue was full
C39_Witness ==
    /\ jm # <<>>
    /\ \E w, v \in Workers :
            /\ w # v
            /\ Len(jm.th[w].stack) = 2 /\ Len(jm.th[v].stack) = 1
            /\ jm.th[w].pc = "run" /\ jm.th[v].pc = "run"

\* C40: while shutdown_pool() is not called, operator() of every enqueued
\* job is eventually run to its end and a join() that was called eventually
\* returns; a shutdown_pool() that was called returns, with every worker
\* gone, and the enqueue() after it throws.
C40_Liveness ==
    /\ \A c \in Jobs :
            jm.job[c].enqueued ~> (jm.job[c].finished \/ jm.m_kill_job_pool)
    /\ jm.th[0].pc \in {"join_check", "join_wait"}
            ~> (jm.th[0].pc = "joined" \/ jm.m_kill_job_pool)
    /\ jm.th[0].pc = "thread_join"
            ~> (jm.state = "terminated"
                \/ (jm.th[0].pc = "finished"
                    /\ \A w \in Workers : jm.th[w].pc = "exited"))
    /\ jm.th[0].pc = "enq_late" ~> jm.threw

(***************************************************************************)
(* Properties of stream_accessor.                                          *)
(***************************************************************************)
\* the least number of parts of the given size that hold n
CeilDiv(n, part) == CHOOSE q \in 0..n : q * part >= n /\ (q - 1) * part < n

\* C32: byte_size() is the number of blocks that hold the items, ceil(size /
\* blockItems), times the block size, plus the header size, which is the
\* smallest multiple of 4096 that is at least sizeof(header) +
\* maxUserDataSize; 10 items in blocks of 4 take 3 blocks.
C32_ByteSize ==
    (acc # <<>> /\ acc.called) =>
        /\ \E h \in 1..(MaxHeaderBoundaries + 1) :
            /\ h * 4096 >= sizeof_stream_header + acc.m_maxUserDataSize
            /\ (h - 1) * 4096 < sizeof_stream_header + acc.m_maxUserDataSize
            /\ acc.ret = CeilDiv(acc.m_size, acc.m_blockItems) * acc.m_blockSize
                            + h * 4096
        /\ (acc.m_size = 10 /\ acc.m_blockItems = 4) =>
                acc.ret = header_size(acc) + 3 * acc.m_blockSize

\* byte_size() of a stream of 10 items in blocks of 4 whose header and user
\* data end one byte after a boundary
C32_Witness ==
    /\ acc # <<>> /\ acc.called
    /\ acc.m_size = 10 /\ acc.m_blockItems = 4
    /\ acc.m_maxUserDataSize = 4096 - sizeof_stream_header + 1
    /\ acc.ret = 2 * 4096 + 3 * acc.m_blockSize


(***************************************************************************)
(* Properties of the phase schedule, the memory assignment and the tokens  *)
(***************************************************************************)

\* the representatives of the phases in the order of execution: calc_phases
\* adds the representative to its phase first
PhaseReps(g) == [i \in 1..Len(g.m_phases) |-> g.m_phases[i].m_segments[1]]

\* the find_set function the graph was built with
FindSetOf(g) ==
    [n \in Nodes |-> CHOOSE rep \in Range(PhaseReps(g)) :
        \E i \in 1..Len(g.m_phases) :
            g.m_phases[i].m_segments[1] = rep /\ n \in Range(g.m_phases[i].m_segments)]

\* the relation multimaps that hold the relations of r, inserted in another
\* order
Reinserted(r) ==
    {s \in {[i \in 1..Len(r) |-> r[p[i]]] :
                p \in {q \in [1..Len(r) -> 1..Len(r)] :
                            \A i, j \in 1..Len(r) : q[i] = q[j] => i = j}} :
        \A i \in 1..(Len(s) - 1) : s[i][1] <= s[i + 1][1]}

\* no phase depends on another phase
NoPhaseDepends(r, find_set) ==
    \A k \in 1..Len(r) :
        r[k][3] = "depends" => find_set[r[k][1]] = find_set[r[k][2]]

\* C33: the order of the phases is a function of the node ids and of the
\* relations: the relations inserted in any other order give the same order
\* of the phases for the same representatives, and phases none of which
\* depends on another run in ascending order of their representatives' ids
C33_ScheduleDeterministic ==
    gpc = GoIdle("ready") =>
        /\ \A s \in Reinserted(rel) :
            PhaseReps(calc_phases(s, FindSetOf(gt))) = PhaseReps(gt)
        /\ NoPhaseDepends(rel, FindSetOf(gt)) =>
            \A i \in 1..(Len(gt.m_phases) - 1) :
                PhaseReps(gt)[i] < PhaseReps(gt)[i + 1]

\* a graph of three phases, the one with the largest id depending on both
\* others through relations that share their key
C33_Witness ==
    /\ gpc = GoIdle("ready")
    /\ Len(gt.m_phases) = 3
    /\ Len(rel) = 2
    /\ rel[1][1] = 2 /\ rel[2][1] = 2
    /\ rel[1][3] = "depends" /\ rel[2][3] = "depends"
    /\ rel[1][2] # rel[2][2]


\* C34: the while loop of assign_memory ends after at most N + 1 passes over
\* a phase of N nodes: every pass but the last assigns its minimum to at
\* least one node that no earlier pass assigned, the last pass assigns no
\* minimum, and a node that was assigned its minimum receives no other call
C34_PassesBounded ==
    (amem # <<>> /\ amem.pc = "assigned" /\ amem.pins # <<>>) =>
        /\ Len(amem.pins) <= Len(amem.m_segments) + 1
        /\ amem.pins[Len(amem.pins)] = {}
        /\ \A p \in 1..(Len(amem.pins) - 1) :
            /\ amem.pins[p] # {}
            /\ \A q \in 1..(p - 1) : amem.pins[p] \cap amem.pins[q] = {}
        /\ \A p \in 1..Len(amem.pins) : \A i \in amem.pins[p] :
            \A j \in DOMAIN amem.set :
                amem.set[j][1] = i => amem.set[j][2] = amem.m_segments[i].min
        /\ EachOnce(amem)

\* a phase of three nodes needed two passes that assign minimums, the second
\* for nodes that were above their minimum in the first, and a last pass
C34_Witness ==
    /\ amem # <<>> /\ amem.pc = "assigned"
    /\ Len(amem.m_segments) = 3
    /\ Len(amem.pins) = 3
    /\ amem.pins[2] # {}
    /\ \E i \in 1..3 : i \notin amem.pins[1] \cup amem.pins[2]


(***************************************************************************)
(* Properties of calc_sorter_params.                                       *)
(***************************************************************************)
\* an item buffer of b bytes with an index array of e entries is within
\* avail, e being the least number of items of size itsz that cover b bytes
WithinAvail(b, e, itsz, avail) ==
    /\ e * itsz >= b
    /\ e = 0 \/ (e - 1) * itsz < b
    /\ b + PtrSize * e <= avail

\* C35: calc_sorter_params(memAvail) throws when memAvail is not above the
\* writer's memory usage; otherwise it begins the internal sorter with the
\* largest buffer size B and E = ceil(B / minimumItemSize) expected items
\* whose memory usage is within memAvail less the writer's usage
C35_SorterParams ==
    (srt # <<>> /\ srt.pc \in {"pushing", "failed"}) =>
        IF srt.m_memAvail <= writer_memory_usage
        THEN srt.pc = "failed" /\ sres = "no_memory_runs"
        ELSE /\ srt.pc = "pushing" /\ sres = "ok"
             /\ srt.m_runSize = srt.m_sorter.m_expectedItems
             /\ WithinAvail(srt.m_sorter.m_bufferSize, srt.m_runSize,
                            srt.m_minimumItemSize,
                            srt.m_memAvail - writer_memory_usage)
             /\ \A b \in (srt.m_sorter.m_bufferSize + 1)..srt.m_memAvail :
                    \A e \in 0..b :
                        ~WithinAvail(b, e, srt.m_minimumItemSize,
                                     srt.m_memAvail - writer_memory_usage)

\* begin() chose a buffer size that is not a power of two and whose last
\* item is not whole
C35_Witness ==
    /\ srt # <<>> /\ srt.pc = "pushing"
    /\ srt.m_sorter.m_bufferSize \notin {0, 1, 2, 4, 8, 16, 32, 64}
    /\ srt.m_sorter.m_bufferSize % srt.m_minimumItemSize # 0
    /\ srt.m_runSize >= 3


(***************************************************************************)
(* Properties of the evacuation between two phases.                        *)
(***************************************************************************)
\* a node of phase i depends on a node of phase j
PhaseDependsOn(i, j) ==
    \E k \in 1..Len(rel) :
        /\ rel[k][3] = "depends"
        /\ rel[k][1] \in Range(gt.m_phases[i].m_segments)
        /\ rel[k][2] \in Range(gt.m_phases[j].m_segments)

\* C36: once phase i > 1 has begun, evacuate_all was called on phase i - 1
\* if and only if phase i does not depend on phase i - 1, and the call came
\* after the end() calls of phase i - 1 and before the begin() calls of
\* phase i
C36_EvacuateUnlessDepending ==
    gpc.stage \notin {"new", "ready"} =>
        \A i \in 2..Len(gt.m_phases) :
            CalledOn("begin", i) # <<>> =>
                /\ CallCount("evacuate", i - 1) > 0 <=> ~PhaseDependsOn(i, i - 1)
                /\ CallCount("evacuate", i - 1) > 0 =>
                    /\ CallCount("evacuate", i - 1) = 1
                    /\ \A b \in 1..Len(calls) :
                        /\ (calls[b][1] = "end"
                            /\ calls[b][2] \in Range(gt.m_phases[i - 1].m_segments))
                           => b < CallPos("evacuate", i - 1)
                        /\ (calls[b][1] = "begin"
                            /\ calls[b][2] \in Range(gt.m_phases[i].m_segments))
                           => b > CallPos("evacuate", i - 1)


(***************************************************************************)
(* Properties of the copies of a token.                                    *)
(***************************************************************************)
\* C37: after segment_token(other, newOwner) the authoritative map of the
\* token returns newOwner for the token's id, whether the token was copied
\* or was a free token, before or after its map was united into another
C37_LookupReturnsNewOwner ==
    (maps # <<>> /\ maps.copied # <<>>) =>
        get(maps.objs[find_authority(maps.objs,
                maps.toks[maps.copied[1]].m_tokens)[2]].m_tokens,
            maps.toks[maps.copied[1]].m_id) = maps.copied[2]


(***************************************************************************)
(* Properties of serialization_reader.                                     *)
(***************************************************************************)
\* C38: the first next_block() after an open() asks for block 0 of the file
\* the reader was opened on, whatever the reader was used for before; a
\* call that asks for block blk raises end_of_stream exactly when the block
\* starts at or beyond the size of the file, and otherwise leaves the
\* block's bytes in m_block
C38_ReaderReuse ==
    (rdr # <<>> /\ rdr.call.name \in {"next_block", "read_from"}) =>
        /\ (rdr.call.name = "next_block" /\ rdr.call.first) => rdr.call.arg = 0
        /\ rdr.call.threw <=> rdr.call.arg * BlockSize >= rdr.sizes[rdr.path]
        /\ ~rdr.call.threw =>
            /\ rdr.m_blockSize
                = Min(BlockSize, rdr.sizes[rdr.path] - rdr.call.arg * BlockSize)
            /\ \A i \in 1..rdr.m_blockSize :
                rdr.m_block[i] = <<rdr.path, rdr.call.arg * BlockSize + i - 1>>

=============================================================================
